---- MODULE Spec2Model ----
(***************************************************************************)
(* easylog: the trace-correlated logging decorator (pkg/otel), its config  *)
(* options, the caller recorder, and the derivation operations of the      *)
(* otel wrappers and of the easylog facade.                                *)
(*                                                                         *)
(* Go strings that the code only passes along are TLA+ strings.  A format  *)
(* template is a sequence of tokens (literal chunks and verbs) so that     *)
(* fmt.Sprintf can be computed; interface{} arguments are tagged values.   *)
(* The wrapped zap logger (the Sink), the OpenTelemetry span and the Go     *)
(* runtime's stack walk are modelled by their documented contracts.        *)
(***************************************************************************)
EXTENDS Integers, Sequences, FiniteSets, TLC

VARIABLES
    objs,     \* the loggers built so far, in creation order
    origin,   \* origin[i]: how objs[i] was made: from which logger, by which call, with which context
    opts,     \* the otel option list the application configures its loggers with
    span,     \* the SDK span carried by the context "span"
    effects,  \* what the last logging call did, in program order
    call,     \* the last logging call: receiver and arguments
    alive,    \* "running", "panicking" (zap panicked) or "exited" (zap called os.Exit)
    ncalls,   \* logging calls made so far
    rc,       \* input and result of a direct invocation of one package function
    option,   \* the variables of package option
    globals,  \* the variables of package easylog: which logger (index in objs) each handle holds
    replacing, \* the ReplaceLogger in progress, if any, and its next statement
    installed \* the logger last handed to InitGlobalLogger's or ReplaceLogger's caller as installed

pkgvars == <<option, globals, replacing, installed>>

vars == <<objs, origin, opts, span, effects, call, alive, ncalls, rc, pkgvars>>

-----------------------------------------------------------------------------
(* Bounds of the model.                                                    *)

MaxObjs == 2
MaxCalls == 1
MaxStack == 4
MaxDepth == 3
MaxSkip == 3
MaxArgs == 2
MaxLoggers == 3

-----------------------------------------------------------------------------
(* zapcore.Level: an int8, Debug = -1 .. Fatal = 5.                        *)

DebugLevel == -1
InfoLevel == 0
WarnLevel == 1
ErrorLevel == 2
DPanicLevel == 3
PanicLevel == 4
FatalLevel == 5

Levels == DebugLevel..FatalLevel

\* zapcore.Level.String()
LevelString(lvl) ==
    CASE lvl = DebugLevel -> "debug"
      [] lvl = InfoLevel -> "info"
      [] lvl = WarnLevel -> "warn"
      [] lvl = ErrorLevel -> "error"
      [] lvl = DPanicLevel -> "dpanic"
      [] lvl = PanicLevel -> "panic"
      [] lvl = FatalLevel -> "fatal"
      [] OTHER -> "Level(" \o ToString(lvl) \o ")"

-----------------------------------------------------------------------------
(* Go integer conversions.                                                 *)

\* int8(x): the low 8 bits of x, read as two's complement
ToInt8(x) == LET r == x % 256 IN IF r >= 128 THEN r - 256 ELSE r

\* uint8(x): the low 8 bits of x
ToUint8(x) == x % 256

Min(a, b) == IF a <= b THEN a ELSE b

-----------------------------------------------------------------------------
(* config and the options (second half of trace.go).                       *)

\* the literal of applyConfig
DefaultCallerDepth == 8

DefaultConfig ==
    [LogTraceId |-> TRUE, LogSpanId |-> FALSE, LogSampled |-> FALSE,
     LogLevel |-> ErrorLevel, ErrorStatusLevel |-> ErrorLevel,
     CallerDepth |-> DefaultCallerDepth, CallerSkip |-> 0]

\* An Option is a closure over its argument; it is kept as the constructor's
\* name and argument, and applied by apply below.
WithLogTraceId(enabled) == [op |-> "WithLogTraceId", b |-> enabled, n |-> 0]
WithLogSpanId(enabled) == [op |-> "WithLogSpanId", b |-> enabled, n |-> 0]
WithLogSampled(enabled) == [op |-> "WithLogSampled", b |-> enabled, n |-> 0]
WithLogLevel(logLevel) == [op |-> "WithLogLevel", b |-> FALSE, n |-> logLevel]
WithErrorStatusLevel(errorStatusLevel) ==
    [op |-> "WithErrorStatusLevel", b |-> FALSE, n |-> errorStatusLevel]
WithCallerDepth(depth) == [op |-> "WithCallerDepth", b |-> FALSE, n |-> depth]
WithCallerSkip(skip) == [op |-> "WithCallerSkip", b |-> FALSE, n |-> skip]

\* cfg.CallerDepth = int8(depth)
SetCallerDepth(cfg, depth) == [cfg EXCEPT !.CallerDepth = ToInt8(depth)]

\* if skip > 0 { cfg.CallerSkip = uint8(skip) } else no-op
SetCallerSkip(cfg, skip) ==
    IF skip > 0 THEN [cfg EXCEPT !.CallerSkip = ToUint8(skip)] ELSE cfg

\* optionFunc.apply: run the closure on the config
apply(o, cfg) ==
    CASE o.op = "WithLogTraceId" -> [cfg EXCEPT !.LogTraceId = o.b]
      [] o.op = "WithLogSpanId" -> [cfg EXCEPT !.LogSpanId = o.b]
      [] o.op = "WithLogSampled" -> [cfg EXCEPT !.LogSampled = o.b]
      [] o.op = "WithLogLevel" -> [cfg EXCEPT !.LogLevel = o.n]
      [] o.op = "WithErrorStatusLevel" -> [cfg EXCEPT !.ErrorStatusLevel = o.n]
      [] o.op = "WithCallerDepth" -> SetCallerDepth(cfg, o.n)
      [] o.op = "WithCallerSkip" -> SetCallerSkip(cfg, o.n)

RECURSIVE applyFrom(_, _, _)
applyFrom(os, i, cfg) ==
    IF i > Len(os) THEN cfg ELSE applyFrom(os, i + 1, apply(os[i], cfg))

applyConfig(os) == applyFrom(os, 1, DefaultConfig)

-----------------------------------------------------------------------------
(* Package option: its variables and the options that assign them.         *)

\* var ( LogFilePath string; LogFileSizeMB = 6; ...; CallerSkip = 2 )
optionDefaults ==
    [LogFilePath |-> "", LogFileSizeMB |-> 6, Compress |-> FALSE, MaxBackups |-> 0,
     MaxAge |-> 0, LogLevel |-> "info", ConsoleRequired |-> TRUE, CallerSkip |-> 2]

\* strings.ToLower on the level names the model passes
ToLower(str) ==
    CASE str \in {"DEBUG", "Debug"} -> "debug"
      [] str \in {"INFO", "Info"} -> "info"
      [] str \in {"WARN", "Warn"} -> "warn"
      [] str \in {"ERROR", "Error"} -> "error"
      [] OTHER -> str

option_WithLogFilePath(logFilePath) ==
    [o |-> "logFileOption", LogFilePath |-> logFilePath, LogFileSizeMB |-> 0,
     Compress |-> FALSE, MaxBackups |-> 0, MaxAge |-> 0]

option_WithLogFile(logFilePath, logFileSizeMB, maxBackups, maxAge, compress) ==
    [o |-> "logFileOption", LogFilePath |-> logFilePath, LogFileSizeMB |-> logFileSizeMB,
     Compress |-> compress, MaxBackups |-> maxBackups, MaxAge |-> maxAge]

option_WithLogLevel(level) == [o |-> "logLevelOption", LogLevel |-> ToLower(level)]

option_WithConsole(required) == [o |-> "logConsoleOption", Required |-> required]

option_WithCallerSkip(callerSkip) == [o |-> "logCallerSkipOption", CallerSkip |-> callerSkip]

\* (*logFileOption).Apply
logFileOption_Apply(o, ov) ==
    IF o.LogFilePath # ""
    THEN [ov EXCEPT !.LogFilePath = o.LogFilePath,
                    !.LogFileSizeMB = IF o.LogFileSizeMB = 0 THEN 100 ELSE o.LogFileSizeMB,
                    !.Compress = o.Compress,
                    !.MaxBackups = o.MaxBackups,
                    !.MaxAge = o.MaxAge]
    ELSE ov

\* (*logLevelOption).Apply
logLevelOption_Apply(o, ov) ==
    IF o.LogLevel # "" THEN [ov EXCEPT !.LogLevel = o.LogLevel] ELSE ov

\* (*logConsoleOption).Apply
logConsoleOption_Apply(o, ov) == [ov EXCEPT !.ConsoleRequired = o.Required]

\* (*logCallerSkipOption).Apply
logCallerSkipOption_Apply(o, ov) == [ov EXCEPT !.CallerSkip = o.CallerSkip]

\* o.Apply(), by the option's type
Apply(o, ov) ==
    CASE o.o = "logFileOption" -> logFileOption_Apply(o, ov)
      [] o.o = "logLevelOption" -> logLevelOption_Apply(o, ov)
      [] o.o = "logConsoleOption" -> logConsoleOption_Apply(o, ov)
      [] OTHER -> logCallerSkipOption_Apply(o, ov)

\* for _, o := range options { o.Apply() }
RECURSIVE ApplyFrom(_, _, _)
ApplyFrom(options, i, ov) ==
    IF i > Len(options) THEN ov ELSE ApplyFrom(options, i + 1, Apply(options[i], ov))

\* option.LevelMapping and easylog.ParseLevel: unknown names give info
ParseLevel(level) ==
    CASE level = "debug" -> DebugLevel
      [] level = "info" -> InfoLevel
      [] level = "warn" -> WarnLevel
      [] level = "error" -> ErrorLevel
      [] level = "panic" -> PanicLevel
      [] level = "fatal" -> FatalLevel
      [] OTHER -> InfoLevel

\* the package variables of easylog before any logger exists (a program
\* that uses package otel alone), no ReplaceLogger running
NoGlobals ==
    [globalLogger |-> 0, globalRawLogger |-> 0, globalSugaredLogger |-> 0,
     globalLoggerLevel |-> 0, globalOtelLogger |-> 0, globalOtelSugaredLogger |-> 0,
     zapGlobals |-> 0]

Idle == [at |-> 0, l |-> 0]

NoPackage ==
    /\ option = optionDefaults
    /\ globals = NoGlobals
    /\ replacing = Idle
    /\ installed = 0

-----------------------------------------------------------------------------
(* Strings, interface{} values and package fmt.                            *)

Lit(s) == [k |-> "lit", s |-> s]
Verb(v) == [k |-> "verb", s |-> v]
StrArg(s) == [t |-> "string", s |-> s]
IntArg(n) == [t |-> "int", s |-> ToString(n)]

\* the Go string a token sequence stands for
RECURSIVE Str(_)
Str(tokens) ==
    IF tokens = <<>> THEN ""
    ELSE (IF Head(tokens).k = "lit" THEN Head(tokens).s ELSE "%" \o Head(tokens).s)
         \o Str(Tail(tokens))

\* one operand under one verb: %v takes anything, %s a string, %d an integer;
\* a mismatch prints fmt's bad-verb form
FormatArg(v, a) ==
    IF v = "v" \/ (v = "s" /\ a.t = "string") \/ (v = "d" /\ a.t = "int")
    THEN a.s
    ELSE "%!" \o v \o "(" \o a.t \o "=" \o a.s \o ")"

RECURSIVE ExtraArgs(_, _)
ExtraArgs(args, i) ==
    IF i > Len(args) THEN ""
    ELSE args[i].t \o "=" \o args[i].s
         \o (IF i < Len(args) THEN ", " ELSE "") \o ExtraArgs(args, i + 1)

RECURSIVE SprintfFrom(_, _, _, _)
SprintfFrom(template, args, i, argi) ==
    IF i > Len(template)
    THEN IF argi <= Len(args) THEN "%!(EXTRA " \o ExtraArgs(args, argi) \o ")" ELSE ""
    ELSE IF template[i].k = "lit"
    THEN template[i].s \o SprintfFrom(template, args, i + 1, argi)
    ELSE IF argi > Len(args)
    THEN "%!" \o template[i].s \o "(MISSING)" \o SprintfFrom(template, args, i + 1, argi)
    ELSE FormatArg(template[i].s, args[argi])
         \o SprintfFrom(template, args, i + 1, argi + 1)

\* fmt.Sprintf(template, args...)
Sprintf(template, args) == SprintfFrom(template, args, 1, 1)

\* fmt.Sprint(args...): a space between operands when neither is a string
RECURSIVE SprintFrom(_, _)
SprintFrom(args, i) ==
    IF i > Len(args) THEN ""
    ELSE (IF i > 1 /\ args[i - 1].t # "string" /\ args[i].t # "string" THEN " " ELSE "")
         \o args[i].s \o SprintFrom(args, i + 1)

Sprint(args) == SprintFrom(args, 1)

\* fmt.Sprintln(args...), as the chunks written: operands separated by a
\* space, then one newline byte
RECURSIVE SprintlnFrom(_, _)
SprintlnFrom(args, i) ==
    IF i > Len(args) THEN << "\n" >>
    ELSE (IF i > 1 THEN << " " >> ELSE << >>) \o << args[i].s >> \o SprintlnFrom(args, i + 1)

Sprintln(args) == SprintlnFrom(args, 1)

RECURSIVE Concat(_)
Concat(chunks) == IF chunks = <<>> THEN "" ELSE Head(chunks) \o Concat(Tail(chunks))

\* getMessage without the early return for an empty argument list
getMessageFormatsAlways(template, fmtArgs) ==
    IF Str(template) # "" THEN Sprintf(template, fmtArgs)
    ELSE IF Len(fmtArgs) = 1 /\ fmtArgs[1].t = "string" THEN fmtArgs[1].s
    ELSE Sprint(fmtArgs)

\* getMessage copy from zap
getMessage(template, fmtArgs) ==
    IF Len(fmtArgs) = 0 THEN Str(template)
    ELSE IF Str(template) # "" THEN Sprintf(template, fmtArgs)
    ELSE IF Len(fmtArgs) = 1 /\ fmtArgs[1].t = "string" THEN fmtArgs[1].s
    ELSE Sprint(fmtArgs)

\* getMessageln copy from zap: msg[:len(msg)-1] drops the final byte, which is
\* the newline chunk of Sprintln
getMessageln(fmtArgs) ==
    LET msg == Sprintln(fmtArgs)
    IN Concat(SubSeq(msg, 1, Len(msg) - 1))

-----------------------------------------------------------------------------
(* The Sink: a zap logger, by the part of its state the wrappers touch.    *)

Field(key, val) == [key |-> key, val |-> val]

\* zap.Fields(fs...) and zap.AddCallerSkip(n)
OptFields(fs) == [opt |-> "Fields", fields |-> fs, n |-> 0]
OptAddCallerSkip(n) == [opt |-> "AddCallerSkip", fields |-> <<>>, n |-> n]

\* a zap logger as the application hands it over
ZapBase == [name |-> <<>>, fields |-> <<>>, callerSkip |-> 0, development |-> FALSE]

\* (*zap.Logger).With: the clone carries the added fields
zap_With(z, fields) == [z EXCEPT !.fields = @ \o fields]

\* (*zap.Logger).Named: the clone carries the name segment ("" changes nothing)
zap_Named(z, s) == IF s = "" THEN z ELSE [z EXCEPT !.name = Append(@, s)]

zap_applyOption(z, o) ==
    IF o.opt = "Fields" THEN zap_With(z, o.fields)
    ELSE [z EXCEPT !.callerSkip = @ + o.n]

RECURSIVE zap_optionsFrom(_, _, _)
zap_optionsFrom(z, zopts, i) ==
    IF i > Len(zopts) THEN z
    ELSE zap_optionsFrom(zap_applyOption(z, zopts[i]), zopts, i + 1)

\* (*zap.Logger).WithOptions: the clone with each option applied
zap_WithOptions(z, zopts) == zap_optionsFrom(z, zopts, 1)

\* (*zap.Logger).Sugar and (*zap.SugaredLogger).Desugar adjust the caller
\* skip by the two frames of the sugared layer
zap_Sugar(z) == [z EXCEPT !.callerSkip = @ + 2]
zap_Desugar(z) == [z EXCEPT !.callerSkip = @ - 2]

\* what zap does after writing an entry of this level
AfterWrite(z, lvl) ==
    CASE lvl = FatalLevel -> "exited"
      [] lvl = PanicLevel -> "panicking"
      [] lvl = DPanicLevel /\ z.development -> "panicking"
      [] OTHER -> "running"

\* a call on the wrapped zap logger: it receives the call and then, for the
\* terminal severities, panics or exits.  A process that has already died
\* executes nothing.
zap_Log(z, m, method, lvl, msg, args) ==
    IF m.alive # "running" THEN m
    ELSE [m EXCEPT
            !.effects = Append(@, [op |-> "Sink", method |-> method, lvl |-> lvl,
                                   msg |-> msg, args |-> args, z |-> z]),
            !.alive = AfterWrite(z, lvl)]

-----------------------------------------------------------------------------
(* Contexts and spans (go.opentelemetry.io/otel/trace).                    *)

\* "nil": a nil context.Context; "background": no span in it; "remote": a
\* valid span context whose span does not record; "span": the SDK span `span`
Ctxs == {"nil", "background", "remote", "span"}

\* trace.SpanContextFromContext; nil and span-less contexts give the zero,
\* invalid SpanContext
SpanContextFromContext(ctx) ==
    CASE ctx = "remote" ->
            [valid |-> TRUE, traceID |-> "0af7651916cd43dd8448eb211c80319c",
             spanID |-> "b7ad6b7169203331", flags |-> "00"]
      [] ctx = "span" ->
            [valid |-> TRUE, traceID |-> "4bf92f3577b34da6a3ce929d0e0e4736",
             spanID |-> "00f067aa0ba902b7", flags |-> "01"]
      [] OTHER ->
            [valid |-> FALSE, traceID |-> "00000000000000000000000000000000",
             spanID |-> "0000000000000000", flags |-> "00"]

\* trace.SpanFromContext(ctx).IsRecording()
IsRecording(ctx, sp) == ctx = "span" /\ sp.recording

NewSpan == [recording |-> TRUE, events |-> <<>>, status |-> [code |-> "Unset", msg |-> ""]]

Attr(key, type, val) == [key |-> key, type |-> type, val |-> val]

\* span.AddEvent(name, trace.WithAttributes(attrs...))
AddEvent(m, name, attrs) ==
    [m EXCEPT !.span.events = Append(@, [name |-> name, attrs |-> attrs]),
              !.effects = Append(@, [op |-> "AddEvent", name |-> name, attrs |-> attrs])]

\* span.SetStatus(codes.Error, msg)
SetStatus(m, code, msg) ==
    [m EXCEPT !.span.status = [code |-> code, msg |-> msg],
              !.effects = Append(@, [op |-> "SetStatus", code |-> code, msg |-> msg])]

-----------------------------------------------------------------------------
(* The goroutine's stack and the runtime's walk of it.                     *)

Frame(fn, file, line) == [fn |-> fn, file |-> file, line |-> line]

\* n frames of application code, innermost first
AppFrames(n) == [i \in 1..n |-> Frame("app.f" \o ToString(i), "app.go", 10 * i)]

\* the frames between runtime.Callers and the application while recordCaller
\* runs under a logging method: Callers, recordCaller, traceInfo, the method
InternalFrames ==
    << Frame("runtime.Callers", "extern.go", 1),
       Frame("otel.recordCaller", "trace.go", 113),
       Frame("otel.traceInfo", "trace.go", 93),
       Frame("otel.method", "trace.go", 49) >>

\* runtime.Callers(skip, pc) with len(pc) = n: the frames from index skip
\* (0 is Callers itself) that fit; the count written is the length
Callers(skip, n, stk) ==
    IF skip >= Len(stk) THEN <<>> ELSE SubSeq(stk, skip + 1, Min(Len(stk), skip + n))

\* (*runtime.Frames).Next: the next frame, and whether another call will
\* return a valid frame
FramesNext(frames) ==
    IF frames = <<>>
    THEN [frame |-> Frame("", "", 0), more |-> FALSE, rest |-> <<>>]
    ELSE [frame |-> Head(frames), more |-> Len(frames) > 1, rest |-> Tail(frames)]

-----------------------------------------------------------------------------
(* The caller recorder.                                                    *)

\* the frames the unexported internal layers add between recordCaller's
\* caller and the application: `+3` in traceInfo and sugaredTraceInfo
FixedInternalFrames == 3

\* "<function> <file>:<line>\n"
StackLine(f) == f.fn \o " " \o f.file \o ":" \o ToString(f.line) \o "\n"

\* the three attributes of the first frame
CallerAttrs(f) ==
    << Attr("code.function", "STRING", f.fn),
       Attr("code.filepath", "STRING", f.file),
       Attr("code.lineno", "INT64", ToString(f.line)) >>

\* for i := 0; i < cc; i++ { next, more := frames.Next(); if !more { break } ... }
\* w carries attrs and the stack text built so far
RECURSIVE recordCallerLoop(_, _, _, _, _)
recordCallerLoop(i, cc, frames, stack, w) ==
    IF i >= cc THEN w
    ELSE LET nx == FramesNext(frames)
         IN IF ~nx.more THEN w
            ELSE recordCallerLoop(i + 1, cc, nx.rest, stack,
                    [attrs |-> IF i = 0 THEN w.attrs \o CallerAttrs(nx.frame) ELSE w.attrs,
                     stackStr |-> IF stack THEN w.stackStr \o StackLine(nx.frame)
                                  ELSE w.stackStr])

\* recordCaller(attrs, callerDepth, skip), reading the live stack stk (its own
\* frame is stk[2], runtime.Callers' is stk[1])
recordCaller(attrs, callerDepth, skip, stk) ==
    IF callerDepth >= 0
    THEN LET stack == callerDepth # 0
             n == IF callerDepth = 0 THEN 1 ELSE callerDepth
             pc == Callers(skip + 1, n, stk)
             cc == Len(pc)
             w == recordCallerLoop(0, cc, pc, stack, [attrs |-> attrs, stackStr |-> ""])
         IN IF stack
            THEN Append(w.attrs, Attr("exception.stacktrace", "STRING", w.stackStr))
            ELSE w.attrs
    ELSE attrs

-----------------------------------------------------------------------------
(* The per-call correlation work of the two decorators.                    *)

\* int(l.CallerSkip+3): the sum is taken in uint8
SkipFrames(callerSkip) == ToUint8(callerSkip + FixedInternalFrames)

\* the mirror block shared by traceInfo and sugaredTraceInfo: build the
\* attributes, record the caller, append the event
mirrorEvent(l, m, lvl, msg) ==
    LET attrs0 == << Attr("log.severity", "STRING", LevelString(lvl)),
                     Attr("log.message", "STRING", msg) >>
        skip == SkipFrames(l.CallerSkip)
        attrs == recordCaller(attrs0, l.CallerDepth, skip, InternalFrames \o m.stack)
        m1 == [m EXCEPT !.effects =
                  Append(@, [op |-> "recordCaller", callerDepth |-> l.CallerDepth,
                             skip |-> skip])]
    IN AddEvent(m1, "log", attrs)

\* traceInfo with the mirror threshold compared strictly
traceInfoStrictThreshold(l, m, lvl, msg) ==
    IF m.alive # "running" THEN m
    ELSE IF ~IsRecording(l.ctx, m.span) THEN m
    ELSE LET m1 == IF lvl > l.LogLevel THEN mirrorEvent(l, m, lvl, msg) ELSE m
         IN IF lvl >= l.ErrorStatusLevel THEN SetStatus(m1, "Error", msg) ELSE m1

\* (*stdLogger).traceInfo
traceInfo(l, m, lvl, msg) ==
    IF m.alive # "running" THEN m
    ELSE IF ~IsRecording(l.ctx, m.span) THEN m
    ELSE LET m1 == IF lvl >= l.LogLevel THEN mirrorEvent(l, m, lvl, msg) ELSE m
         IN IF lvl >= l.ErrorStatusLevel THEN SetStatus(m1, "Error", msg) ELSE m1

\* the message resolution of sugaredTraceInfo, with the call counted
resolveMessage(m, msg, ln, args) ==
    IF ln
    THEN [m |-> [m EXCEPT !.effects = Append(@, [op |-> "getMessageln"])],
          msg |-> getMessageln(args)]
    ELSE [m |-> [m EXCEPT !.effects = Append(@, [op |-> "getMessage"])],
          msg |-> getMessage(msg, args)]

\* sugaredTraceInfo returning early when the severity is under either threshold
sugaredTraceInfoEitherThreshold(s, m, lvl, msg, ln, args) ==
    IF m.alive # "running" THEN m
    ELSE IF ~IsRecording(s.ctx, m.span) THEN m
    ELSE IF lvl < s.LogLevel \/ lvl < s.ErrorStatusLevel THEN m
    ELSE LET r == resolveMessage(m, msg, ln, args)
             m1 == IF lvl >= s.LogLevel THEN mirrorEvent(s, r.m, lvl, r.msg) ELSE r.m
         IN IF lvl >= s.ErrorStatusLevel THEN SetStatus(m1, "Error", r.msg) ELSE m1

\* sugaredTraceInfo resolving the message before it looks at the span
sugaredTraceInfoFormatFirst(s, m, lvl, msg, ln, args) ==
    IF m.alive # "running" THEN m
    ELSE LET r == resolveMessage(m, msg, ln, args)
         IN IF ~IsRecording(s.ctx, m.span) THEN r.m
            ELSE IF lvl < s.LogLevel /\ lvl < s.ErrorStatusLevel THEN r.m
            ELSE LET m1 == IF lvl >= s.LogLevel THEN mirrorEvent(s, r.m, lvl, r.msg)
                           ELSE r.m
                 IN IF lvl >= s.ErrorStatusLevel THEN SetStatus(m1, "Error", r.msg)
                    ELSE m1

\* (*stdSugaredLogger).sugaredTraceInfo
sugaredTraceInfo(s, m, lvl, msg, ln, args) ==
    IF m.alive # "running" THEN m
    ELSE IF ~IsRecording(s.ctx, m.span) THEN m
    ELSE IF lvl < s.LogLevel /\ lvl < s.ErrorStatusLevel THEN m
    ELSE LET r == resolveMessage(m, msg, ln, args)
             m1 == IF lvl >= s.LogLevel THEN mirrorEvent(s, r.m, lvl, r.msg) ELSE r.m
         IN IF lvl >= s.ErrorStatusLevel THEN SetStatus(m1, "Error", r.msg) ELSE m1

-----------------------------------------------------------------------------
(* Constructors and context binding.                                       *)

\* a bare *zap.Logger / *zap.SugaredLogger as an izap.StdLogger
ZapLogger(z) == [kind |-> "zap.Logger", Logger |-> z]
ZapSugaredLogger(z) == [kind |-> "zap.SugaredLogger", Logger |-> z]

\* the identifier fields with the span id tied to the trace id toggle
idFieldsCoupled(cfg, spanContext) ==
    (IF cfg.LogTraceId THEN << Field("trace_id", spanContext.traceID) >> ELSE <<>>)
    \o (IF cfg.LogTraceId /\ cfg.LogSpanId
        THEN << Field("span_id", spanContext.spanID) >> ELSE <<>>)
    \o (IF cfg.LogSampled THEN << Field("sampled", spanContext.flags) >> ELSE <<>>)

\* the identifier fields chosen by the config
idFields(cfg, spanContext) ==
    (IF cfg.LogTraceId THEN << Field("trace_id", spanContext.traceID) >> ELSE <<>>)
    \o (IF cfg.LogSpanId THEN << Field("span_id", spanContext.spanID) >> ELSE <<>>)
    \o (IF cfg.LogSampled THEN << Field("sampled", spanContext.flags) >> ELSE <<>>)

\* &stdLogger{...} / &stdSugaredLogger{...}
bind(kind, z, ctx, cfg, spanContext) ==
    [kind |-> kind,
     Logger |-> zap_WithOptions(z, << OptFields(idFields(cfg, spanContext)),
                                      OptAddCallerSkip(1) >>),
     ctx |-> ctx,
     LogLevel |-> cfg.LogLevel,
     ErrorStatusLevel |-> cfg.ErrorStatusLevel,
     CallerDepth |-> cfg.CallerDepth,
     CallerSkip |-> cfg.CallerSkip]

\* otel.WithContext(ctx, zLogger, opts...)
WithContext(ctx, zLogger, os) ==
    IF ctx = "nil" THEN ZapLogger(zLogger)
    ELSE LET spanContext == SpanContextFromContext(ctx)
         IN IF ~spanContext.valid THEN ZapLogger(zLogger)
            ELSE bind("stdLogger", zLogger, ctx, applyConfig(os), spanContext)

\* otel.SugarWithContext(ctx, zsLogger, opts...)
SugarWithContext(ctx, zsLogger, os) ==
    IF ctx = "nil" THEN ZapSugaredLogger(zsLogger)
    ELSE LET spanContext == SpanContextFromContext(ctx)
         IN IF ~spanContext.valid THEN ZapSugaredLogger(zsLogger)
            ELSE bind("stdSugaredLogger", zsLogger, ctx, applyConfig(os), spanContext)

\* otel.NewLogger(log, opts...) and otel.NewSugaredLogger(log, opts...)
NewLogger(log, os) == [kind |-> "logger", Logger |-> log, cfg |-> applyConfig(os)]
NewSugaredLogger(log, os) ==
    [kind |-> "sugaredLogger", Logger |-> log, cfg |-> applyConfig(os)]

\* (*logger).WithContext without the validity check
logger_WithContextAlwaysBinds(l, ctx) ==
    bind("stdLogger", l.Logger, ctx, l.cfg, SpanContextFromContext(ctx))

\* (*logger).WithContext(ctx)
logger_WithContext(l, ctx) ==
    LET spanContext == SpanContextFromContext(ctx)
    IN IF ~spanContext.valid THEN l
       ELSE bind("stdLogger", l.Logger, ctx, l.cfg, spanContext)

\* (*sugaredLogger).WithContext(ctx)
sugaredLogger_WithContext(o, ctx) ==
    LET spanContext == SpanContextFromContext(ctx)
    IN IF ~spanContext.valid THEN o
       ELSE bind("stdSugaredLogger", o.Logger, ctx, o.cfg, spanContext)

-----------------------------------------------------------------------------
(* The structured decorator's methods: correlate, then delegate.           *)

stdLogger_Log(l, m, lvl, msg, fields) ==
    zap_Log(l.Logger, traceInfo(l, m, lvl, msg), "Log", lvl, msg, fields)

stdLogger_Debug(l, m, msg, fields) ==
    zap_Log(l.Logger, traceInfo(l, m, DebugLevel, msg), "Debug", DebugLevel, msg, fields)

stdLogger_Info(l, m, msg, fields) ==
    zap_Log(l.Logger, traceInfo(l, m, InfoLevel, msg), "Info", InfoLevel, msg, fields)

stdLogger_Warn(l, m, msg, fields) ==
    zap_Log(l.Logger, traceInfo(l, m, WarnLevel, msg), "Warn", WarnLevel, msg, fields)

stdLogger_Error(l, m, msg, fields) ==
    zap_Log(l.Logger, traceInfo(l, m, ErrorLevel, msg), "Error", ErrorLevel, msg, fields)

stdLogger_Panic(l, m, msg, fields) ==
    zap_Log(l.Logger, traceInfo(l, m, PanicLevel, msg), "Panic", PanicLevel, msg, fields)

\* Fatal delegating to zap before it correlates
stdLogger_FatalDelegateFirst(l, m, msg, fields) ==
    traceInfo(l, zap_Log(l.Logger, m, "Fatal", FatalLevel, msg, fields), FatalLevel, msg)

stdLogger_Fatal(l, m, msg, fields) ==
    zap_Log(l.Logger, traceInfo(l, m, FatalLevel, msg), "Fatal", FatalLevel, msg, fields)

stdLogger_DPanic(l, m, msg, fields) ==
    zap_Log(l.Logger, traceInfo(l, m, DPanicLevel, msg), "DPanic", DPanicLevel, msg, fields)

-----------------------------------------------------------------------------
(* The sugared decorator's methods.  The plain and ln shapes pass their    *)
(* arguments with an empty template; the w shape passes its message as the *)
(* template and no arguments (nil).                                        *)

stdSugaredLogger_Debug(s, m, args) ==
    zap_Log(s.Logger, sugaredTraceInfo(s, m, DebugLevel, <<>>, FALSE, args),
            "Debug", DebugLevel, <<>>, args)

stdSugaredLogger_Info(s, m, args) ==
    zap_Log(s.Logger, sugaredTraceInfo(s, m, InfoLevel, <<>>, FALSE, args),
            "Info", InfoLevel, <<>>, args)

stdSugaredLogger_Warn(s, m, args) ==
    zap_Log(s.Logger, sugaredTraceInfo(s, m, WarnLevel, <<>>, FALSE, args),
            "Warn", WarnLevel, <<>>, args)

stdSugaredLogger_Error(s, m, args) ==
    zap_Log(s.Logger, sugaredTraceInfo(s, m, ErrorLevel, <<>>, FALSE, args),
            "Error", ErrorLevel, <<>>, args)

stdSugaredLogger_DPanic(s, m, args) ==
    zap_Log(s.Logger, sugaredTraceInfo(s, m, DPanicLevel, <<>>, FALSE, args),
            "DPanic", DPanicLevel, <<>>, args)

stdSugaredLogger_Panic(s, m, args) ==
    zap_Log(s.Logger, sugaredTraceInfo(s, m, PanicLevel, <<>>, FALSE, args),
            "Panic", PanicLevel, <<>>, args)

stdSugaredLogger_Fatal(s, m, args) ==
    zap_Log(s.Logger, sugaredTraceInfo(s, m, FatalLevel, <<>>, FALSE, args),
            "Fatal", FatalLevel, <<>>, args)

stdSugaredLogger_Debugf(s, m, template, args) ==
    zap_Log(s.Logger, sugaredTraceInfo(s, m, DebugLevel, template, FALSE, args),
            "Debugf", DebugLevel, template, args)

stdSugaredLogger_Infof(s, m, template, args) ==
    zap_Log(s.Logger, sugaredTraceInfo(s, m, InfoLevel, template, FALSE, args),
            "Infof", InfoLevel, template, args)

stdSugaredLogger_Warnf(s, m, template, args) ==
    zap_Log(s.Logger, sugaredTraceInfo(s, m, WarnLevel, template, FALSE, args),
            "Warnf", WarnLevel, template, args)

stdSugaredLogger_Errorf(s, m, template, args) ==
    zap_Log(s.Logger, sugaredTraceInfo(s, m, ErrorLevel, template, FALSE, args),
            "Errorf", ErrorLevel, template, args)

stdSugaredLogger_DPanicf(s, m, template, args) ==
    zap_Log(s.Logger, sugaredTraceInfo(s, m, DPanicLevel, template, FALSE, args),
            "DPanicf", DPanicLevel, template, args)

stdSugaredLogger_Panicf(s, m, template, args) ==
    zap_Log(s.Logger, sugaredTraceInfo(s, m, PanicLevel, template, FALSE, args),
            "Panicf", PanicLevel, template, args)

stdSugaredLogger_Fatalf(s, m, template, args) ==
    zap_Log(s.Logger, sugaredTraceInfo(s, m, FatalLevel, template, FALSE, args),
            "Fatalf", FatalLevel, template, args)

stdSugaredLogger_Debugw(s, m, msg, keysAndValues) ==
    zap_Log(s.Logger, sugaredTraceInfo(s, m, DebugLevel, msg, FALSE, <<>>),
            "Debugw", DebugLevel, msg, keysAndValues)

stdSugaredLogger_Infow(s, m, msg, keysAndValues) ==
    zap_Log(s.Logger, sugaredTraceInfo(s, m, InfoLevel, msg, FALSE, <<>>),
            "Infow", InfoLevel, msg, keysAndValues)

stdSugaredLogger_Warnw(s, m, msg, keysAndValues) ==
    zap_Log(s.Logger, sugaredTraceInfo(s, m, WarnLevel, msg, FALSE, <<>>),
            "Warnw", WarnLevel, msg, keysAndValues)

\* Errorw handing the key/value pairs to the message resolution
stdSugaredLogger_ErrorwFormatsPairs(s, m, msg, keysAndValues) ==
    zap_Log(s.Logger, sugaredTraceInfo(s, m, ErrorLevel, msg, FALSE, keysAndValues),
            "Errorw", ErrorLevel, msg, keysAndValues)

stdSugaredLogger_Errorw(s, m, msg, keysAndValues) ==
    zap_Log(s.Logger, sugaredTraceInfo(s, m, ErrorLevel, msg, FALSE, <<>>),
            "Errorw", ErrorLevel, msg, keysAndValues)

stdSugaredLogger_DPanicw(s, m, msg, keysAndValues) ==
    zap_Log(s.Logger, sugaredTraceInfo(s, m, DPanicLevel, msg, FALSE, <<>>),
            "DPanicw", DPanicLevel, msg, keysAndValues)

stdSugaredLogger_Panicw(s, m, msg, keysAndValues) ==
    zap_Log(s.Logger, sugaredTraceInfo(s, m, PanicLevel, msg, FALSE, <<>>),
            "Panicw", PanicLevel, msg, keysAndValues)

stdSugaredLogger_Fatalw(s, m, msg, keysAndValues) ==
    zap_Log(s.Logger, sugaredTraceInfo(s, m, FatalLevel, msg, FALSE, <<>>),
            "Fatalw", FatalLevel, msg, keysAndValues)

stdSugaredLogger_Debugln(s, m, args) ==
    zap_Log(s.Logger, sugaredTraceInfo(s, m, DebugLevel, <<>>, TRUE, args),
            "Debugln", DebugLevel, <<>>, args)

stdSugaredLogger_Infoln(s, m, args) ==
    zap_Log(s.Logger, sugaredTraceInfo(s, m, InfoLevel, <<>>, TRUE, args),
            "Infoln", InfoLevel, <<>>, args)

stdSugaredLogger_Warnln(s, m, args) ==
    zap_Log(s.Logger, sugaredTraceInfo(s, m, WarnLevel, <<>>, TRUE, args),
            "Warnln", WarnLevel, <<>>, args)

stdSugaredLogger_Errorln(s, m, args) ==
    zap_Log(s.Logger, sugaredTraceInfo(s, m, ErrorLevel, <<>>, TRUE, args),
            "Errorln", ErrorLevel, <<>>, args)

stdSugaredLogger_DPanicln(s, m, args) ==
    zap_Log(s.Logger, sugaredTraceInfo(s, m, DPanicLevel, <<>>, TRUE, args),
            "DPanicln", DPanicLevel, <<>>, args)

stdSugaredLogger_Panicln(s, m, args) ==
    zap_Log(s.Logger, sugaredTraceInfo(s, m, PanicLevel, <<>>, TRUE, args),
            "Panicln", PanicLevel, <<>>, args)

stdSugaredLogger_Fatalln(s, m, args) ==
    zap_Log(s.Logger, sugaredTraceInfo(s, m, FatalLevel, <<>>, TRUE, args),
            "Fatalln", FatalLevel, <<>>, args)

-----------------------------------------------------------------------------
(* Inputs of the model.                                                    *)

Msgs == {"disk low"}
FieldLists == { << Field("user", "u1") >> }
ArgLists == { << StrArg("hello") >>, << IntArg(3), StrArg("x") >> }
Templates == { << Verb("d"), Lit(" items") >> }
FormatCalls ==
    { [template |-> << Lit("done") >>, args |-> << >>],
      [template |-> << Verb("d"), Lit("-"), Verb("s") >>,
       args |-> << IntArg(3), StrArg("x") >>] }
KeyValueLists == { << StrArg("k"), IntArg(1) >> }

\* the application's frames above the logging call
AppStack == AppFrames(3)

\* every pair of thresholds; every depth and skip argument around the
\* boundaries of the 8-bit fields
DepthInputs == {-129, -128, -1, 0, 1, 2, 127, 128, 255, 256, 257}
SkipInputs == {-1, 0, 1, 2, 252, 253, 255, 256, 257}
ThresholdOpts == { << WithLogLevel(a), WithErrorStatusLevel(b) >> : a, b \in Levels }
DepthOpts == { << WithCallerDepth(d) >> : d \in DepthInputs }
SkipOpts == { << WithCallerSkip(k) >> : k \in SkipInputs }
OptLists == ThresholdOpts \cup DepthOpts \cup SkipOpts

StructuredKinds == {"zap.Logger", "logger", "stdLogger"}
SugaredKinds == {"zap.SugaredLogger", "sugaredLogger", "stdSugaredLogger"}

NoCall == [method |-> "none"]
NoRc == [done |-> FALSE]

-----------------------------------------------------------------------------
(* Running one logging method to completion.                               *)

\* the process as a method body sees it
Machine == [span |-> span, effects |-> <<>>, alive |-> alive, stack |-> AppStack]

Run(recv, method, lvl, msg, args, m) ==
    /\ alive = "running"
    /\ ncalls < MaxCalls
    /\ span' = m.span
    /\ effects' = m.effects
    /\ alive' = m.alive
    /\ call' = [recv |-> recv, method |-> method, lvl |-> lvl, msg |-> msg,
                args |-> args, before |-> span]
    /\ ncalls' = ncalls + 1
    /\ UNCHANGED <<objs, origin, opts, rc, pkgvars>>

-----------------------------------------------------------------------------
(* Logging calls.  The receiver is any logger built so far; a receiver     *)
(* that is not a decorator (a bare zap logger, or an otel wrapper, whose   *)
(* logging methods are zap's, promoted) goes straight to the Sink.         *)

StdLog ==
    \E i \in DOMAIN objs, lvl \in Levels, msg \in Msgs, fields \in FieldLists :
        /\ objs[i].kind \in StructuredKinds
        /\ Run(objs[i], "Log", lvl, msg, fields,
               IF objs[i].kind = "stdLogger"
               THEN stdLogger_Log(objs[i], Machine, lvl, msg, fields)
               ELSE zap_Log(objs[i].Logger, Machine, "Log", lvl, msg, fields))

StdDebug ==
    \E i \in DOMAIN objs, msg \in Msgs, fields \in FieldLists :
        /\ objs[i].kind \in StructuredKinds
        /\ Run(objs[i], "Debug", DebugLevel, msg, fields,
               IF objs[i].kind = "stdLogger"
               THEN stdLogger_Debug(objs[i], Machine, msg, fields)
               ELSE zap_Log(objs[i].Logger, Machine, "Debug", DebugLevel, msg, fields))

StdInfo ==
    \E i \in DOMAIN objs, msg \in Msgs, fields \in FieldLists :
        /\ objs[i].kind \in StructuredKinds
        /\ Run(objs[i], "Info", InfoLevel, msg, fields,
               IF objs[i].kind = "stdLogger"
               THEN stdLogger_Info(objs[i], Machine, msg, fields)
               ELSE zap_Log(objs[i].Logger, Machine, "Info", InfoLevel, msg, fields))

StdWarn ==
    \E i \in DOMAIN objs, msg \in Msgs, fields \in FieldLists :
        /\ objs[i].kind \in StructuredKinds
        /\ Run(objs[i], "Warn", WarnLevel, msg, fields,
               IF objs[i].kind = "stdLogger"
               THEN stdLogger_Warn(objs[i], Machine, msg, fields)
               ELSE zap_Log(objs[i].Logger, Machine, "Warn", WarnLevel, msg, fields))

StdError ==
    \E i \in DOMAIN objs, msg \in Msgs, fields \in FieldLists :
        /\ objs[i].kind \in StructuredKinds
        /\ Run(objs[i], "Error", ErrorLevel, msg, fields,
               IF objs[i].kind = "stdLogger"
               THEN stdLogger_Error(objs[i], Machine, msg, fields)
               ELSE zap_Log(objs[i].Logger, Machine, "Error", ErrorLevel, msg, fields))

StdPanic ==
    \E i \in DOMAIN objs, msg \in Msgs, fields \in FieldLists :
        /\ objs[i].kind \in StructuredKinds
        /\ Run(objs[i], "Panic", PanicLevel, msg, fields,
               IF objs[i].kind = "stdLogger"
               THEN stdLogger_Panic(objs[i], Machine, msg, fields)
               ELSE zap_Log(objs[i].Logger, Machine, "Panic", PanicLevel, msg, fields))

StdFatal ==
    \E i \in DOMAIN objs, msg \in Msgs, fields \in FieldLists :
        /\ objs[i].kind \in StructuredKinds
        /\ Run(objs[i], "Fatal", FatalLevel, msg, fields,
               IF objs[i].kind = "stdLogger"
               THEN stdLogger_Fatal(objs[i], Machine, msg, fields)
               ELSE zap_Log(objs[i].Logger, Machine, "Fatal", FatalLevel, msg, fields))

StdDPanic ==
    \E i \in DOMAIN objs, msg \in Msgs, fields \in FieldLists :
        /\ objs[i].kind \in StructuredKinds
        /\ Run(objs[i], "DPanic", DPanicLevel, msg, fields,
               IF objs[i].kind = "stdLogger"
               THEN stdLogger_DPanic(objs[i], Machine, msg, fields)
               ELSE zap_Log(objs[i].Logger, Machine, "DPanic", DPanicLevel, msg, fields))

SugaredDebug ==
    \E i \in DOMAIN objs, args \in ArgLists :
        /\ objs[i].kind \in SugaredKinds
        /\ Run(objs[i], "Debug", DebugLevel, <<>>, args,
               IF objs[i].kind = "stdSugaredLogger"
               THEN stdSugaredLogger_Debug(objs[i], Machine, args)
               ELSE zap_Log(objs[i].Logger, Machine, "Debug", DebugLevel, <<>>, args))

SugaredInfo ==
    \E i \in DOMAIN objs, args \in ArgLists :
        /\ objs[i].kind \in SugaredKinds
        /\ Run(objs[i], "Info", InfoLevel, <<>>, args,
               IF objs[i].kind = "stdSugaredLogger"
               THEN stdSugaredLogger_Info(objs[i], Machine, args)
               ELSE zap_Log(objs[i].Logger, Machine, "Info", InfoLevel, <<>>, args))

SugaredWarn ==
    \E i \in DOMAIN objs, args \in ArgLists :
        /\ objs[i].kind \in SugaredKinds
        /\ Run(objs[i], "Warn", WarnLevel, <<>>, args,
               IF objs[i].kind = "stdSugaredLogger"
               THEN stdSugaredLogger_Warn(objs[i], Machine, args)
               ELSE zap_Log(objs[i].Logger, Machine, "Warn", WarnLevel, <<>>, args))

SugaredError ==
    \E i \in DOMAIN objs, args \in ArgLists :
        /\ objs[i].kind \in SugaredKinds
        /\ Run(objs[i], "Error", ErrorLevel, <<>>, args,
               IF objs[i].kind = "stdSugaredLogger"
               THEN stdSugaredLogger_Error(objs[i], Machine, args)
               ELSE zap_Log(objs[i].Logger, Machine, "Error", ErrorLevel, <<>>, args))

SugaredDPanic ==
    \E i \in DOMAIN objs, args \in ArgLists :
        /\ objs[i].kind \in SugaredKinds
        /\ Run(objs[i], "DPanic", DPanicLevel, <<>>, args,
               IF objs[i].kind = "stdSugaredLogger"
               THEN stdSugaredLogger_DPanic(objs[i], Machine, args)
               ELSE zap_Log(objs[i].Logger, Machine, "DPanic", DPanicLevel, <<>>, args))

SugaredPanic ==
    \E i \in DOMAIN objs, args \in ArgLists :
        /\ objs[i].kind \in SugaredKinds
        /\ Run(objs[i], "Panic", PanicLevel, <<>>, args,
               IF objs[i].kind = "stdSugaredLogger"
               THEN stdSugaredLogger_Panic(objs[i], Machine, args)
               ELSE zap_Log(objs[i].Logger, Machine, "Panic", PanicLevel, <<>>, args))

SugaredFatal ==
    \E i \in DOMAIN objs, args \in ArgLists :
        /\ objs[i].kind \in SugaredKinds
        /\ Run(objs[i], "Fatal", FatalLevel, <<>>, args,
               IF objs[i].kind = "stdSugaredLogger"
               THEN stdSugaredLogger_Fatal(objs[i], Machine, args)
               ELSE zap_Log(objs[i].Logger, Machine, "Fatal", FatalLevel, <<>>, args))

SugaredDebugf ==
    \E i \in DOMAIN objs, f \in FormatCalls :
        /\ objs[i].kind \in SugaredKinds
        /\ Run(objs[i], "Debugf", DebugLevel, f.template, f.args,
               IF objs[i].kind = "stdSugaredLogger"
               THEN stdSugaredLogger_Debugf(objs[i], Machine, f.template, f.args)
               ELSE zap_Log(objs[i].Logger, Machine, "Debugf", DebugLevel, f.template, f.args))

SugaredInfof ==
    \E i \in DOMAIN objs, f \in FormatCalls :
        /\ objs[i].kind \in SugaredKinds
        /\ Run(objs[i], "Infof", InfoLevel, f.template, f.args,
               IF objs[i].kind = "stdSugaredLogger"
               THEN stdSugaredLogger_Infof(objs[i], Machine, f.template, f.args)
               ELSE zap_Log(objs[i].Logger, Machine, "Infof", InfoLevel, f.template, f.args))

SugaredWarnf ==
    \E i \in DOMAIN objs, f \in FormatCalls :
        /\ objs[i].kind \in SugaredKinds
        /\ Run(objs[i], "Warnf", WarnLevel, f.template, f.args,
               IF objs[i].kind = "stdSugaredLogger"
               THEN stdSugaredLogger_Warnf(objs[i], Machine, f.template, f.args)
               ELSE zap_Log(objs[i].Logger, Machine, "Warnf", WarnLevel, f.template, f.args))

SugaredErrorf ==
    \E i \in DOMAIN objs, f \in FormatCalls :
        /\ objs[i].kind \in SugaredKinds
        /\ Run(objs[i], "Errorf", ErrorLevel, f.template, f.args,
               IF objs[i].kind = "stdSugaredLogger"
               THEN stdSugaredLogger_Errorf(objs[i], Machine, f.template, f.args)
               ELSE zap_Log(objs[i].Logger, Machine, "Errorf", ErrorLevel, f.template, f.args))

SugaredDPanicf ==
    \E i \in DOMAIN objs, f \in FormatCalls :
        /\ objs[i].kind \in SugaredKinds
        /\ Run(objs[i], "DPanicf", DPanicLevel, f.template, f.args,
               IF objs[i].kind = "stdSugaredLogger"
               THEN stdSugaredLogger_DPanicf(objs[i], Machine, f.template, f.args)
               ELSE zap_Log(objs[i].Logger, Machine, "DPanicf", DPanicLevel, f.template, f.args))

SugaredPanicf ==
    \E i \in DOMAIN objs, f \in FormatCalls :
        /\ objs[i].kind \in SugaredKinds
        /\ Run(objs[i], "Panicf", PanicLevel, f.template, f.args,
               IF objs[i].kind = "stdSugaredLogger"
               THEN stdSugaredLogger_Panicf(objs[i], Machine, f.template, f.args)
               ELSE zap_Log(objs[i].Logger, Machine, "Panicf", PanicLevel, f.template, f.args))

SugaredFatalf ==
    \E i \in DOMAIN objs, f \in FormatCalls :
        /\ objs[i].kind \in SugaredKinds
        /\ Run(objs[i], "Fatalf", FatalLevel, f.template, f.args,
               IF objs[i].kind = "stdSugaredLogger"
               THEN stdSugaredLogger_Fatalf(objs[i], Machine, f.template, f.args)
               ELSE zap_Log(objs[i].Logger, Machine, "Fatalf", FatalLevel, f.template, f.args))

SugaredDebugw ==
    \E i \in DOMAIN objs, msg \in Templates, kv \in KeyValueLists :
        /\ objs[i].kind \in SugaredKinds
        /\ Run(objs[i], "Debugw", DebugLevel, msg, kv,
               IF objs[i].kind = "stdSugaredLogger"
               THEN stdSugaredLogger_Debugw(objs[i], Machine, msg, kv)
               ELSE zap_Log(objs[i].Logger, Machine, "Debugw", DebugLevel, msg, kv))

SugaredInfow ==
    \E i \in DOMAIN objs, msg \in Templates, kv \in KeyValueLists :
        /\ objs[i].kind \in SugaredKinds
        /\ Run(objs[i], "Infow", InfoLevel, msg, kv,
               IF objs[i].kind = "stdSugaredLogger"
               THEN stdSugaredLogger_Infow(objs[i], Machine, msg, kv)
               ELSE zap_Log(objs[i].Logger, Machine, "Infow", InfoLevel, msg, kv))

SugaredWarnw ==
    \E i \in DOMAIN objs, msg \in Templates, kv \in KeyValueLists :
        /\ objs[i].kind \in SugaredKinds
        /\ Run(objs[i], "Warnw", WarnLevel, msg, kv,
               IF objs[i].kind = "stdSugaredLogger"
               THEN stdSugaredLogger_Warnw(objs[i], Machine, msg, kv)
               ELSE zap_Log(objs[i].Logger, Machine, "Warnw", WarnLevel, msg, kv))

SugaredErrorw ==
    \E i \in DOMAIN objs, msg \in Templates, kv \in KeyValueLists :
        /\ objs[i].kind \in SugaredKinds
        /\ Run(objs[i], "Errorw", ErrorLevel, msg, kv,
               IF objs[i].kind = "stdSugaredLogger"
               THEN stdSugaredLogger_Errorw(objs[i], Machine, msg, kv)
               ELSE zap_Log(objs[i].Logger, Machine, "Errorw", ErrorLevel, msg, kv))

SugaredDPanicw ==
    \E i \in DOMAIN objs, msg \in Templates, kv \in KeyValueLists :
        /\ objs[i].kind \in SugaredKinds
        /\ Run(objs[i], "DPanicw", DPanicLevel, msg, kv,
               IF objs[i].kind = "stdSugaredLogger"
               THEN stdSugaredLogger_DPanicw(objs[i], Machine, msg, kv)
               ELSE zap_Log(objs[i].Logger, Machine, "DPanicw", DPanicLevel, msg, kv))

SugaredPanicw ==
    \E i \in DOMAIN objs, msg \in Templates, kv \in KeyValueLists :
        /\ objs[i].kind \in SugaredKinds
        /\ Run(objs[i], "Panicw", PanicLevel, msg, kv,
               IF objs[i].kind = "stdSugaredLogger"
               THEN stdSugaredLogger_Panicw(objs[i], Machine, msg, kv)
               ELSE zap_Log(objs[i].Logger, Machine, "Panicw", PanicLevel, msg, kv))

SugaredFatalw ==
    \E i \in DOMAIN objs, msg \in Templates, kv \in KeyValueLists :
        /\ objs[i].kind \in SugaredKinds
        /\ Run(objs[i], "Fatalw", FatalLevel, msg, kv,
               IF objs[i].kind = "stdSugaredLogger"
               THEN stdSugaredLogger_Fatalw(objs[i], Machine, msg, kv)
               ELSE zap_Log(objs[i].Logger, Machine, "Fatalw", FatalLevel, msg, kv))

SugaredDebugln ==
    \E i \in DOMAIN objs, args \in ArgLists :
        /\ objs[i].kind \in SugaredKinds
        /\ Run(objs[i], "Debugln", DebugLevel, <<>>, args,
               IF objs[i].kind = "stdSugaredLogger"
               THEN stdSugaredLogger_Debugln(objs[i], Machine, args)
               ELSE zap_Log(objs[i].Logger, Machine, "Debugln", DebugLevel, <<>>, args))

SugaredInfoln ==
    \E i \in DOMAIN objs, args \in ArgLists :
        /\ objs[i].kind \in SugaredKinds
        /\ Run(objs[i], "Infoln", InfoLevel, <<>>, args,
               IF objs[i].kind = "stdSugaredLogger"
               THEN stdSugaredLogger_Infoln(objs[i], Machine, args)
               ELSE zap_Log(objs[i].Logger, Machine, "Infoln", InfoLevel, <<>>, args))

SugaredWarnln ==
    \E i \in DOMAIN objs, args \in ArgLists :
        /\ objs[i].kind \in SugaredKinds
        /\ Run(objs[i], "Warnln", WarnLevel, <<>>, args,
               IF objs[i].kind = "stdSugaredLogger"
               THEN stdSugaredLogger_Warnln(objs[i], Machine, args)
               ELSE zap_Log(objs[i].Logger, Machine, "Warnln", WarnLevel, <<>>, args))

SugaredErrorln ==
    \E i \in DOMAIN objs, args \in ArgLists :
        /\ objs[i].kind \in SugaredKinds
        /\ Run(objs[i], "Errorln", ErrorLevel, <<>>, args,
               IF objs[i].kind = "stdSugaredLogger"
               THEN stdSugaredLogger_Errorln(objs[i], Machine, args)
               ELSE zap_Log(objs[i].Logger, Machine, "Errorln", ErrorLevel, <<>>, args))

SugaredDPanicln ==
    \E i \in DOMAIN objs, args \in ArgLists :
        /\ objs[i].kind \in SugaredKinds
        /\ Run(objs[i], "DPanicln", DPanicLevel, <<>>, args,
               IF objs[i].kind = "stdSugaredLogger"
               THEN stdSugaredLogger_DPanicln(objs[i], Machine, args)
               ELSE zap_Log(objs[i].Logger, Machine, "DPanicln", DPanicLevel, <<>>, args))

SugaredPanicln ==
    \E i \in DOMAIN objs, args \in ArgLists :
        /\ objs[i].kind \in SugaredKinds
        /\ Run(objs[i], "Panicln", PanicLevel, <<>>, args,
               IF objs[i].kind = "stdSugaredLogger"
               THEN stdSugaredLogger_Panicln(objs[i], Machine, args)
               ELSE zap_Log(objs[i].Logger, Machine, "Panicln", PanicLevel, <<>>, args))

SugaredFatalln ==
    \E i \in DOMAIN objs, args \in ArgLists :
        /\ objs[i].kind \in SugaredKinds
        /\ Run(objs[i], "Fatalln", FatalLevel, <<>>, args,
               IF objs[i].kind = "stdSugaredLogger"
               THEN stdSugaredLogger_Fatalln(objs[i], Machine, args)
               ELSE zap_Log(objs[i].Logger, Machine, "Fatalln", FatalLevel, <<>>, args))

StructuredCall ==
    \/ StdLog
    \/ StdDebug
    \/ StdInfo
    \/ StdWarn
    \/ StdError
    \/ StdPanic
    \/ StdFatal
    \/ StdDPanic

SugaredPrintCall ==
    \/ SugaredDebug
    \/ SugaredInfo
    \/ SugaredWarn
    \/ SugaredError
    \/ SugaredDPanic
    \/ SugaredPanic
    \/ SugaredFatal

SugaredFormatCall ==
    \/ SugaredDebugf
    \/ SugaredInfof
    \/ SugaredWarnf
    \/ SugaredErrorf
    \/ SugaredDPanicf
    \/ SugaredPanicf
    \/ SugaredFatalf

SugaredKeyValueCall ==
    \/ SugaredDebugw
    \/ SugaredInfow
    \/ SugaredWarnw
    \/ SugaredErrorw
    \/ SugaredDPanicw
    \/ SugaredPanicw
    \/ SugaredFatalw

SugaredLineCall ==
    \/ SugaredDebugln
    \/ SugaredInfoln
    \/ SugaredWarnln
    \/ SugaredErrorln
    \/ SugaredDPanicln
    \/ SugaredPanicln
    \/ SugaredFatalln

SugaredCall ==
    \/ SugaredPrintCall
    \/ SugaredFormatCall
    \/ SugaredKeyValueCall
    \/ SugaredLineCall

-----------------------------------------------------------------------------
(* Binding a context, and the span's end.                                  *)

Origin(from, via, ctx) == [from |-> from, via |-> via, ctx |-> ctx]
Root == Origin(0, "New", "-")

\* the logger an entry point returned from objs[i] is kept by the program
Add(child, i, via, ctx) ==
    /\ alive = "running"
    /\ Len(objs) < MaxObjs
    /\ objs' = Append(objs, child)
    /\ origin' = Append(origin, Origin(i, via, ctx))
    /\ UNCHANGED <<opts, span, effects, call, alive, ncalls, rc, pkgvars>>

DoWithContext ==
    \E i \in DOMAIN objs, ctx \in Ctxs :
        /\ objs[i].kind \in {"logger", "zap.Logger"}
        /\ Add(WithContext(ctx, objs[i].Logger, opts), i, "otel.WithContext", ctx)

DoSugarWithContext ==
    \E i \in DOMAIN objs, ctx \in Ctxs :
        /\ objs[i].kind \in {"sugaredLogger", "zap.SugaredLogger"}
        /\ Add(SugarWithContext(ctx, objs[i].Logger, opts), i, "otel.SugarWithContext", ctx)

DoLoggerWithContext ==
    \E i \in DOMAIN objs, ctx \in Ctxs :
        /\ objs[i].kind = "logger"
        /\ Add(logger_WithContext(objs[i], ctx), i, "logger.WithContext", ctx)

DoSugaredLoggerWithContext ==
    \E i \in DOMAIN objs, ctx \in Ctxs :
        /\ objs[i].kind = "sugaredLogger"
        /\ Add(sugaredLogger_WithContext(objs[i], ctx), i,
               "sugaredLogger.WithContext", ctx)

\* span.End(): the span stops recording
EndSpan ==
    /\ alive = "running"
    /\ span.recording
    /\ span' = [span EXCEPT !.recording = FALSE]
    /\ UNCHANGED <<objs, origin, opts, effects, call, alive, ncalls, rc, pkgvars>>

-----------------------------------------------------------------------------
(* Spec: an application builds an otel logger from its options, binds      *)
(* contexts to it through the four entry points, and logs.                 *)

\* the default config, the end-to-end scenario of the design notes, and a
\* config with every field changed
BindOptLists ==
    { << >>,
      << WithLogTraceId(FALSE), WithLogSpanId(TRUE), WithLogSampled(TRUE),
         WithLogLevel(DebugLevel), WithErrorStatusLevel(PanicLevel),
         WithCallerDepth(0), WithCallerSkip(1) >> }

Init ==
    /\ opts \in BindOptLists
    /\ objs \in { << NewLogger(ZapBase, opts) >>,
                  << NewSugaredLogger(zap_Sugar(ZapBase), opts) >> }
    /\ origin = << Root >>
    /\ span = NewSpan
    /\ effects = <<>>
    /\ call = NoCall
    /\ alive = "running"
    /\ ncalls = 0
    /\ rc = NoRc
    /\ NoPackage

Bind ==
    \/ DoWithContext
    \/ DoSugarWithContext
    \/ DoLoggerWithContext
    \/ DoSugaredLoggerWithContext

Next ==
    \/ Bind
    \/ StructuredCall
    \/ SugaredCall

Spec == Init /\ [][Next]_vars

-----------------------------------------------------------------------------
(* SpecCall: the logger in use is the result of binding a context under    *)
(* any pair of thresholds, or any depth or skip option; then calls.        *)

\* what the entry points return for this flavor, context and option list
Bound(flavor, ctx, os) ==
    IF flavor = "structured"
    THEN { WithContext(ctx, ZapBase, os),
           logger_WithContext(NewLogger(ZapBase, os), ctx) }
    ELSE { SugarWithContext(ctx, zap_Sugar(ZapBase), os),
           sugaredLogger_WithContext(NewSugaredLogger(zap_Sugar(ZapBase), os), ctx) }

InitCall ==
    /\ opts \in OptLists
    /\ \E flavor \in {"structured", "sugared"}, ctx \in Ctxs :
           \E o \in Bound(flavor, ctx, opts) : objs = << o >>
    /\ origin = << Root >>
    /\ span = NewSpan
    /\ effects = <<>>
    /\ call = NoCall
    /\ alive = "running"
    /\ ncalls = 0
    /\ rc = NoRc
    /\ NoPackage

NextCall ==
    \/ EndSpan
    \/ StructuredCall
    \/ SugaredCall

SpecCall == InitCall /\ [][NextCall]_vars

-----------------------------------------------------------------------------
(* Properties of the logging calls (SpecCall).                             *)

DecoratorKinds == {"stdLogger", "stdSugaredLogger"}

Called(kind) == call.method # "none" /\ call.recv.kind = kind

\* the span of the receiver's context was recording when the call began
WasRecording == call.recv.ctx = "span" /\ call.before.recording

Mirrored == WasRecording /\ call.lvl >= call.recv.LogLevel
Flagged == WasRecording /\ call.lvl >= call.recv.ErrorStatusLevel

EffectsOf(op) == SelectSeq(effects, LAMBDA e : e.op = op)

\* the span gained exactly the events and the status the call should give it
SpanFollows(msg) ==
    /\ Len(EffectsOf("AddEvent")) = (IF Mirrored THEN 1 ELSE 0)
    /\ Mirrored =>
          LET ev == EffectsOf("AddEvent")[1]
          IN /\ ev.name = "log"
             /\ ev.attrs[1] = Attr("log.severity", "STRING", LevelString(call.lvl))
             /\ ev.attrs[2] = Attr("log.message", "STRING", msg)
             /\ span.events =
                   Append(call.before.events, [name |-> "log", attrs |-> ev.attrs])
    /\ ~Mirrored => span.events = call.before.events
    /\ Len(EffectsOf("SetStatus")) = (IF Flagged THEN 1 ELSE 0)
    /\ Flagged => span.status = [code |-> "Error", msg |-> msg]
    /\ ~Flagged => span.status = call.before.status

\* the Sink received the call once, as the caller made it
ForwardedOnce ==
    /\ Len(EffectsOf("Sink")) = 1
    /\ EffectsOf("Sink")[1] =
          [op |-> "Sink", method |-> call.method, lvl |-> call.lvl, msg |-> call.msg,
           args |-> call.args, z |-> call.recv.Logger]

\* C1: a structured call at severity S on a correlating logger appends the
\* "log" event iff the span is recording and S >= mirrorThreshold, sets the
\* error status with the message iff the span is recording and
\* S >= errorStatusThreshold, and is forwarded to the Sink exactly once with
\* the same severity, message and fields in every case.
C1_StructuredMirrorStatusForward ==
    Called("stdLogger") => (SpanFollows(call.msg) /\ ForwardedOnce)

\* a Warn between the two thresholds on a recording span: event, no status
C1_Witness ==
    /\ Called("stdLogger")
    /\ call.method = "Warn"
    /\ WasRecording
    /\ call.recv.LogLevel = WarnLevel
    /\ call.recv.ErrorStatusLevel = ErrorLevel
    /\ Len(span.events) = 1
    /\ span.status.code = "Unset"
    /\ Len(EffectsOf("Sink")) = 1

\* the message a sugared call resolves to
ResolvedMessage ==
    IF call.method \in {"Debugln", "Infoln", "Warnln", "Errorln", "DPanicln", "Panicln",
                        "Fatalln"}
    THEN getMessageln(call.args)
    ELSE IF call.method \in {"Debugw", "Infow", "Warnw", "Errorw", "DPanicw", "Panicw",
                             "Fatalw"}
    THEN Str(call.msg)
    ELSE getMessage(call.msg, call.args)

Quiet == call.lvl < call.recv.LogLevel /\ call.lvl < call.recv.ErrorStatusLevel

Materialized == Len(EffectsOf("getMessage")) + Len(EffectsOf("getMessageln"))

\* C2: a sugared call of any shape at severity S on a recording span: under
\* both thresholds the message is never materialized and the span is left
\* alone; otherwise the event is appended iff S >= mirrorThreshold and the
\* status set iff S >= errorStatusThreshold; the Sink receives the caller's
\* template and arguments unchanged in all cases.
C2_SugaredDeferredMessage ==
    (Called("stdSugaredLogger") /\ WasRecording) =>
        /\ Quiet => (Materialized = 0 /\ span.events = call.before.events
                     /\ span.status = call.before.status)
        /\ ~Quiet => Materialized = 1
        /\ SpanFollows(ResolvedMessage)
        /\ ForwardedOnce

\* a formatted call under both thresholds: nothing formatted, Sink only
C2_Witness ==
    /\ Called("stdSugaredLogger")
    /\ WasRecording
    /\ call.method = "Infof"
    /\ Len(call.args) = 2
    /\ Quiet
    /\ Len(effects) = 1
    /\ effects[1].op = "Sink"

Position(op) == { i \in DOMAIN effects : effects[i].op = op }

\* C3: in every logging call of the two correlating loggers the event
\* append and the status update come strictly before the delegation to the
\* Sink, so when the Sink has panicked or ended the process the event and
\* the error status (where they apply) are already on the span.
C3_CorrelateBeforeDelegate ==
    (call.method # "none" /\ call.recv.kind \in DecoratorKinds) =>
        /\ \A i \in Position("AddEvent") \cup Position("SetStatus") :
              \A j \in Position("Sink") : i < j
        /\ alive # "running" =>
              /\ Position("Sink") # {}
              /\ Mirrored => Len(span.events) = Len(call.before.events) + 1
              /\ Flagged => span.status = [code |-> "Error", msg |->
                                IF call.recv.kind = "stdLogger" THEN call.msg
                                ELSE ResolvedMessage]

\* the process ended in Fatal with the event and the status already recorded
C3_Witness ==
    /\ Called("stdLogger")
    /\ call.method = "Fatal"
    /\ alive = "exited"
    /\ Len(span.events) = 1
    /\ span.status.code = "Error"
    /\ effects[Len(effects)].op = "Sink"

\* C4: on a span that is not recording, a call of any severity and shape
\* makes no call to the caller recorder, builds no attributes, formats no
\* message, appends no event and sets no status: it only forwards.
C4_NonRecordingPassThrough ==
    (call.method # "none" /\ call.recv.kind \in DecoratorKinds /\ ~WasRecording) =>
        /\ Len(effects) = 1
        /\ ForwardedOnce
        /\ span.events = call.before.events
        /\ span.status = call.before.status

\* an Errorf above both thresholds on a span that has ended
C4_Witness ==
    /\ Called("stdSugaredLogger")
    /\ call.method = "Errorf"
    /\ call.recv.ctx = "span"
    /\ ~call.before.recording
    /\ ~Quiet
    /\ Len(effects) = 1

-----------------------------------------------------------------------------
(* Properties of context binding (Spec).                                   *)

InvalidCtxs == {"nil", "background"}

BindCalls ==
    {"otel.WithContext", "otel.SugarWithContext", "logger.WithContext",
     "sugaredLogger.WithContext"}

\* what the entry point was given as its base: the zap logger for the
\* package functions, the otel wrapper itself for the methods
BaseOf(i) ==
    LET p == objs[origin[i].from]
    IN CASE origin[i].via = "otel.WithContext" -> ZapLogger(p.Logger)
         [] origin[i].via = "otel.SugarWithContext" -> ZapSugaredLogger(p.Logger)
         [] OTHER -> p

\* C5: each of the four context-binding entry points, given a nil context or
\* one without a valid span context, returns the base logger without the
\* decorator: no identifier field, no caller-skip bump, and no later call on
\* the result touches a span.
C5_InvalidContextReturnsBase ==
    /\ \A i \in DOMAIN objs :
          (origin[i].via \in BindCalls /\ origin[i].ctx \in InvalidCtxs) =>
              /\ objs[i] = BaseOf(i)
              /\ objs[i].kind \notin DecoratorKinds
              /\ objs[i].Logger = objs[origin[i].from].Logger
    /\ (call.method # "none" /\ call.recv.kind \notin DecoratorKinds) =>
          /\ Len(effects) = 1
          /\ ForwardedOnce
          /\ span.events = call.before.events
          /\ span.status = call.before.status

\* a logger bound to a nil context by the method, then an Error logged on it
C5_Witness ==
    \E i \in DOMAIN objs :
        /\ origin[i].via = "logger.WithContext"
        /\ origin[i].ctx = "nil"
        /\ call.method = "Error"
        /\ call.recv = objs[i]
        /\ span.events = <<>>
        /\ span.status.code = "Unset"

-----------------------------------------------------------------------------
(* Deriving loggers.  The loggers are objects on a heap (a sequence); a    *)
(* derivation allocates the child and returns the new heap.                *)

\* a []interface{} handed over as one variadic operand
SliceArg(xs) == [t |-> "slice", elems |-> xs]

\* (*zap.SugaredLogger).sweetenFields: key/value pairs become fields; a last
\* operand without a value is dropped and complained about, and so is a pair
\* whose key is no string
RECURSIVE zap_sweetenFrom(_, _, _)
zap_sweetenFrom(args, i, acc) ==
    IF i > Len(args) THEN acc
    ELSE IF i = Len(args)
         THEN [acc EXCEPT !.complaints = Append(@, "Ignored key without a value.")]
         ELSE zap_sweetenFrom(args, i + 2,
                 IF args[i].t = "string"
                 THEN [acc EXCEPT !.fields = Append(@, Field(args[i].s, args[i + 1]))]
                 ELSE [acc EXCEPT !.invalid = TRUE])

zap_sweetenFields(args) ==
    LET r == zap_sweetenFrom(args, 1, [fields |-> <<>>, complaints |-> <<>>,
                                       invalid |-> FALSE])
    IN [fields |-> r.fields,
        complaints |-> r.complaints \o
            (IF r.invalid THEN << "Ignored key-value pairs with non-string keys." >>
             ELSE <<>>)]

\* (*zap.SugaredLogger).With(args...)
zap_SugaredWith(z, args) == zap_With(z, zap_sweetenFields(args).fields)

\* (*logger).With that adds the fields to the receiver's own zap logger
logger_WithInPlace(h, i, fields) ==
    LET newL == zap_With(h[i].Logger, fields)
    IN Append([h EXCEPT ![i].Logger = newL],
              [kind |-> "logger", Logger |-> newL, cfg |-> h[i].cfg])

\* (*logger).With(fields...)
logger_With(h, i, fields) ==
    LET newL == zap_With(h[i].Logger, fields)
    IN Append(h, [kind |-> "logger", Logger |-> newL, cfg |-> h[i].cfg])

\* (*logger).WithOptions(opts...)
logger_WithOptions(h, i, zopts) ==
    LET newL == zap_WithOptions(h[i].Logger, zopts)
    IN Append(h, [kind |-> "logger", Logger |-> newL, cfg |-> h[i].cfg])

\* (*logger).Sugar()
logger_Sugar(h, i) ==
    LET sl == zap_Sugar(h[i].Logger)
    IN Append(h, [kind |-> "sugaredLogger", Logger |-> sl, cfg |-> h[i].cfg])

\* (*sugaredLogger).With(args...): the slice goes on as a single operand
sugaredLogger_With(h, i, args) ==
    LET sl == zap_SugaredWith(h[i].Logger, << SliceArg(args) >>)
    IN Append(h, [kind |-> "sugaredLogger", Logger |-> sl, cfg |-> h[i].cfg])

\* (*sugaredLogger).WithOptions(opts...)
sugaredLogger_WithOptions(h, i, zopts) ==
    LET sl == zap_WithOptions(h[i].Logger, zopts)
    IN Append(h, [kind |-> "sugaredLogger", Logger |-> sl, cfg |-> h[i].cfg])

\* (*sugaredLogger).Desugar()
sugaredLogger_Desugar(h, i) ==
    LET l == zap_Desugar(h[i].Logger)
    IN Append(h, [kind |-> "logger", Logger |-> l, cfg |-> h[i].cfg])

\* the zero zap.AtomicLevel (its pointer is nil) and an absent otel wrapper
ZeroAtomicLevel == [l |-> "nil"]
NilWrapper == [kind |-> "nil"]

\* easylog's &logger{...} around a zap logger: both otel wrappers are built
\* without options; atomicLevel is left at its zero value
easylog_logger(level, lg) ==
    [kind |-> "easylog.logger",
     level |-> level,
     atomicLevel |-> ZeroAtomicLevel,
     logger |-> lg,
     sugaredLogger |-> zap_Sugar(lg),
     otelLogger |-> NewLogger(lg, <<>>),
     otelSugaredLogger |-> NewSugaredLogger(zap_Sugar(lg), <<>>)]

\* zapcore.NewCore(encoder, multiWriteSyncer, ParseLevel(option.LogLevel))
\* over the syncers initLogger picks; id stands for the core's address
NewCore(ov, id) ==
    LET toFile == ov.LogFilePath # "" /\ ov.LogFileSizeMB # 0
    IN [id |-> id,
        level |-> ParseLevel(ov.LogLevel),
        console |-> (~toFile \/ ov.ConsoleRequired),
        file |-> IF toFile
                 THEN << [Filename |-> ov.LogFilePath, MaxSize |-> ov.LogFileSizeMB,
                          MaxBackups |-> ov.MaxBackups, MaxAge |-> ov.MaxAge,
                          Compress |-> ov.Compress] >>
                 ELSE <<>>]

\* zap.New(core, options...)
zap_New(core, zopts) ==
    zap_WithOptions([name |-> <<>>, fields |-> <<>>, callerSkip |-> 0,
                     development |-> FALSE, core |-> core], zopts)

\* easylog initLogger(options...): applies the options to the variables of
\* package option, then builds the logger from those variables.  The level
\* string and atomicLevel are never assigned.
initLogger(options, ov, id) ==
    LET ov1 == ApplyFrom(options, 1, ov)
    IN [option |-> ov1,
        l |-> easylog_logger("", zap_New(NewCore(ov1, id), << OptAddCallerSkip(1) >>))]

\* easylog (*logger).Named(s)
easylog_logger_Named(h, i, s) ==
    LET lg == zap_Named(h[i].logger, s)
    IN Append(h, easylog_logger(h[i].level, lg))

\* easylog (*logger).With(fields...)
easylog_logger_With(h, i, fields) ==
    LET lg == zap_With(h[i].logger, fields)
    IN Append(h, easylog_logger(h[i].level, lg))

\* the outcome of a method call through a nil interface value
NilDereference == [kind |-> "panic"]

\* easylog (*logger).WithContext(ctx): l.otelLogger.WithContext(ctx)
easylog_logger_WithContext(l, ctx) ==
    IF l.otelLogger.kind = "nil" THEN NilDereference
    ELSE logger_WithContext(l.otelLogger, ctx)

\* easylog (*logger).Debug/Info/Warn/Error: the zap logger's method
easylog_logger_Debug(l, m, msg, fields) ==
    zap_Log(l.logger, m, "Debug", DebugLevel, msg, fields)
easylog_logger_Info(l, m, msg, fields) ==
    zap_Log(l.logger, m, "Info", InfoLevel, msg, fields)
easylog_logger_Warn(l, m, msg, fields) ==
    zap_Log(l.logger, m, "Warn", WarnLevel, msg, fields)
easylog_logger_Error(l, m, msg, fields) ==
    zap_Log(l.logger, m, "Error", ErrorLevel, msg, fields)

-----------------------------------------------------------------------------
(* SpecDerive: loggers are derived from one another and called.            *)

Names == {"svc"}
ZapOptLists == { << OptAddCallerSkip(1) >>, << OptFields(<< Field("env", "prod") >>) >> }

\* the heap after a derivation from objs[i] is the program's heap
Derive(h, i, via) ==
    /\ alive = "running"
    /\ Len(objs) < MaxObjs
    /\ objs' = h
    /\ origin' = Append(origin, Origin(i, via, "-"))
    /\ UNCHANGED <<opts, span, effects, call, alive, ncalls, rc, pkgvars>>

DoLoggerWith ==
    \E i \in DOMAIN objs, fields \in FieldLists :
        /\ objs[i].kind = "logger"
        /\ Derive(logger_With(objs, i, fields), i, "logger.With")

DoLoggerWithOptions ==
    \E i \in DOMAIN objs, zopts \in ZapOptLists :
        /\ objs[i].kind = "logger"
        /\ Derive(logger_WithOptions(objs, i, zopts), i, "logger.WithOptions")

DoLoggerSugar ==
    \E i \in DOMAIN objs :
        /\ objs[i].kind = "logger"
        /\ Derive(logger_Sugar(objs, i), i, "logger.Sugar")

\* zap reports the operand it ignored through the receiver's own logger, at
\* Error or at DPanic depending on its version
DoSugaredLoggerWith ==
    \E i \in DOMAIN objs, kv \in KeyValueLists, lvl \in {ErrorLevel, DPanicLevel} :
        /\ objs[i].kind = "sugaredLogger"
        /\ alive = "running"
        /\ Len(objs) < MaxObjs
        /\ objs' = sugaredLogger_With(objs, i, kv)
        /\ origin' = Append(origin, Origin(i, "sugaredLogger.With", "-"))
        /\ effects' = [k \in DOMAIN zap_sweetenFields(<< SliceArg(kv) >>).complaints |->
                          [op |-> "Sink", method |-> "sweetenFields", lvl |-> lvl,
                           msg |-> zap_sweetenFields(<< SliceArg(kv) >>).complaints[k],
                           args |-> << SliceArg(kv) >>,
                           z |-> zap_Desugar(objs[i].Logger)]]
        /\ UNCHANGED <<opts, span, call, alive, ncalls, rc, pkgvars>>

DoSugaredLoggerWithOptions ==
    \E i \in DOMAIN objs, zopts \in ZapOptLists :
        /\ objs[i].kind = "sugaredLogger"
        /\ Derive(sugaredLogger_WithOptions(objs, i, zopts), i,
                  "sugaredLogger.WithOptions")

DoSugaredLoggerDesugar ==
    \E i \in DOMAIN objs :
        /\ objs[i].kind = "sugaredLogger"
        /\ Derive(sugaredLogger_Desugar(objs, i), i, "sugaredLogger.Desugar")

DoNamed ==
    \E i \in DOMAIN objs, s \in Names :
        /\ objs[i].kind = "easylog.logger"
        /\ Derive(easylog_logger_Named(objs, i, s), i, "easylog.Named")

DoWith ==
    \E i \in DOMAIN objs, fields \in FieldLists :
        /\ objs[i].kind = "easylog.logger"
        /\ Derive(easylog_logger_With(objs, i, fields), i, "easylog.With")

DoEasylogWithContext ==
    \E i \in DOMAIN objs, ctx \in Ctxs :
        /\ objs[i].kind = "easylog.logger"
        /\ easylog_logger_WithContext(objs[i], ctx).kind # "panic"
        /\ Add(easylog_logger_WithContext(objs[i], ctx), i, "easylog.WithContext", ctx)

EasylogDebug ==
    \E i \in DOMAIN objs, msg \in Msgs, fields \in FieldLists :
        /\ objs[i].kind = "easylog.logger"
        /\ Run(objs[i], "Debug", DebugLevel, msg, fields,
               easylog_logger_Debug(objs[i], Machine, msg, fields))

EasylogInfo ==
    \E i \in DOMAIN objs, msg \in Msgs, fields \in FieldLists :
        /\ objs[i].kind = "easylog.logger"
        /\ Run(objs[i], "Info", InfoLevel, msg, fields,
               easylog_logger_Info(objs[i], Machine, msg, fields))

EasylogWarn ==
    \E i \in DOMAIN objs, msg \in Msgs, fields \in FieldLists :
        /\ objs[i].kind = "easylog.logger"
        /\ Run(objs[i], "Warn", WarnLevel, msg, fields,
               easylog_logger_Warn(objs[i], Machine, msg, fields))

EasylogError ==
    \E i \in DOMAIN objs, msg \in Msgs, fields \in FieldLists :
        /\ objs[i].kind = "easylog.logger"
        /\ Run(objs[i], "Error", ErrorLevel, msg, fields,
               easylog_logger_Error(objs[i], Machine, msg, fields))

DeriveStep ==
    \/ DoLoggerWith
    \/ DoLoggerWithOptions
    \/ DoLoggerSugar
    \/ DoSugaredLoggerWith
    \/ DoSugaredLoggerWithOptions
    \/ DoSugaredLoggerDesugar
    \/ DoLoggerWithContext
    \/ DoSugaredLoggerWithContext
    \/ DoNamed
    \/ DoWith
    \/ DoEasylogWithContext

EasylogCall ==
    \/ EasylogDebug
    \/ EasylogInfo
    \/ EasylogWarn
    \/ EasylogError

InitDerive ==
    /\ \/ /\ opts \in BindOptLists
          /\ objs \in { << NewLogger(ZapBase, opts) >>,
                        << NewSugaredLogger(zap_Sugar(ZapBase), opts) >> }
       \/ /\ opts = <<>>
          /\ objs = << initLogger(<<>>, optionDefaults, 1).l >>
    /\ origin = << Root >>
    /\ span = NewSpan
    /\ effects = <<>>
    /\ call = NoCall
    /\ alive = "running"
    /\ ncalls = 0
    /\ rc = NoRc
    /\ NoPackage

\* of the sugared methods the key/value family is called here
NextDerive ==
    \/ DeriveStep
    \/ StructuredCall
    \/ SugaredKeyValueCall
    \/ EasylogCall

SpecDerive == InitDerive /\ [][NextDerive]_vars

-----------------------------------------------------------------------------
(* Properties of derivation (SpecDerive).                                  *)

\* the thresholds and caller settings a logger correlates with
Correlation(o) ==
    LET c == CASE o.kind \in {"logger", "sugaredLogger"} -> o.cfg
               [] o.kind = "easylog.logger" -> o.otelLogger.cfg
               [] OTHER -> o
    IN [LogLevel |-> c.LogLevel, ErrorStatusLevel |-> c.ErrorStatusLevel,
        CallerDepth |-> c.CallerDepth, CallerSkip |-> c.CallerSkip]

HasConfig(o) == o.kind \in {"logger", "sugaredLogger"}

SameConfig(child, par) ==
    /\ par.kind \notin {"zap.Logger", "zap.SugaredLogger"}
    /\ Correlation(child) = Correlation(par)
    /\ (HasConfig(child) /\ HasConfig(par)) => child.cfg = par.cfg
    /\ (HasConfig(child) /\ par.kind = "easylog.logger") => child = par.otelLogger
    /\ (child.kind = "easylog.logger") =>
          /\ child.otelLogger.cfg = par.otelLogger.cfg
          /\ child.otelSugaredLogger.cfg = par.otelSugaredLogger.cfg
          /\ child.level = par.level

\* the zap logger a call on this logger reaches
SinkOf(o) == IF o.kind = "easylog.logger" THEN o.logger ELSE o.Logger

\* the call just made went to the receiver's own zap logger, once, unchanged
ForwardedByReceiver ==
    /\ \E i \in DOMAIN objs : objs[i] = call.recv
    /\ Len(EffectsOf("Sink")) = 1
    /\ EffectsOf("Sink")[1] =
          [op |-> "Sink", method |-> call.method, lvl |-> call.lvl, msg |-> call.msg,
           args |-> call.args, z |-> SinkOf(call.recv)]

DeriveKeepsParent ==
    /\ Len(objs') >= Len(objs)
    /\ \A i \in DOMAIN objs : objs'[i] = objs[i] /\ origin'[i] = origin[i]
    /\ \A i \in DOMAIN objs' :
          origin'[i].from # 0 => SameConfig(objs'[i], objs'[origin'[i].from])
    /\ ncalls' # ncalls => ForwardedByReceiver'

\* C6: deriving a logger with Named, With, WithOptions, Sugar, Desugar or
\* WithContext never changes the parent (no step changes a logger that
\* exists), the child carries the parent's correlation config, and a call on
\* any logger, the parent included, goes to that logger's own zap logger
\* with its own fields and name.
C6_DeriveNeverChangesParent == [][DeriveKeepsParent]_vars

\* a child with an added field was derived from a configured parent, then
\* the parent was called: the entry carries none of the child's fields
C6_Witness ==
    /\ Len(objs) = 2
    /\ origin[2].via = "logger.With"
    /\ objs[2].Logger.fields # <<>>
    /\ objs[2].cfg = objs[1].cfg
    /\ objs[1].cfg # DefaultConfig
    /\ call.method = "Error"
    /\ call.recv = objs[1]
    /\ Len(effects) = 1
    /\ effects[1].z.fields = <<>>

-----------------------------------------------------------------------------
(* SpecCaller: recordCaller invoked on its own, for every depth, skip and  *)
(* stack height within the bounds.                                         *)

AttrLists == { <<>>, << Attr("log.severity", "STRING", "error") >> }

\* the live stack inside recordCaller's call of runtime.Callers, with n
\* frames of callers below recordCaller
RecorderStack(n) == SubSeq(InternalFrames, 1, 2) \o AppFrames(n)

InitCaller ==
    /\ \E attrs \in AttrLists, callerDepth \in -1..MaxDepth, skip \in 0..MaxSkip,
          n \in 0..MaxStack :
           rc = [done |-> FALSE, attrs |-> attrs, callerDepth |-> callerDepth,
                 skip |-> skip, stk |-> RecorderStack(n), out |-> <<>>]
    /\ objs = <<>>
    /\ origin = <<>>
    /\ opts = <<>>
    /\ span = NewSpan
    /\ effects = <<>>
    /\ call = NoCall
    /\ alive = "running"
    /\ ncalls = 0
    /\ NoPackage

RecordCaller ==
    /\ ~rc.done
    /\ rc' = [rc EXCEPT !.done = TRUE,
                        !.out = recordCaller(rc.attrs, rc.callerDepth, rc.skip, rc.stk)]
    /\ UNCHANGED <<objs, origin, opts, span, effects, call, alive, ncalls, pkgvars>>

NextCaller == RecordCaller

SpecCaller == InitCaller /\ [][NextCaller]_vars

-----------------------------------------------------------------------------
(* Properties of the caller recorder (SpecCaller, SpecCall).               *)

\* recordCaller's skip counts from itself: its frame is rc.stk[2], so the
\* frame at the skip point is rc.stk[rc.skip + 2]
Available == IF Len(rc.stk) > rc.skip + 1 THEN Len(rc.stk) - (rc.skip + 1) ELSE 0

FrameAt(k) == rc.stk[rc.skip + 1 + k]

RECURSIVE StackText(_, _)
StackText(k, n) == IF k > n THEN "" ELSE StackLine(FrameAt(k)) \o StackText(k + 1, n)

\* C7: recordCaller with stackDepth = 0 and at least one frame left above
\* the skip point appends exactly the function/file/line triple of the frame
\* at the skip point and no stack-text attribute.
C7_DepthZeroRecordsOneTriple ==
    (rc.done /\ rc.callerDepth = 0 /\ Available >= 1) =>
        rc.out = rc.attrs \o CallerAttrs(FrameAt(1))

\* C8: recordCaller with stackDepth = N > 0 and A >= 1 frames above the skip
\* point appends the triple of the first frame once, then one stack-text
\* attribute whose lines are the first min(N, A) frames in order.
C8_DepthNRecordsTripleAndStack ==
    (rc.done /\ rc.callerDepth > 0 /\ Available >= 1) =>
        rc.out = rc.attrs \o CallerAttrs(FrameAt(1))
                 \o << Attr("exception.stacktrace", "STRING",
                            StackText(1, Min(rc.callerDepth, Available))) >>

Sign(n) == IF n < 0 THEN -1 ELSE IF n = 0 THEN 0 ELSE 1

\* the call just made was mirrored by a decorator built with this one option
MirroredWith(op) ==
    /\ call.method # "none"
    /\ call.recv.kind \in DecoratorKinds
    /\ Mirrored
    /\ Len(opts) = 1
    /\ opts[1].op = op

HasStackText(attrs) == \E k \in DOMAIN attrs : attrs[k].key = "exception.stacktrace"

\* C9: for every integer d given to WithCallerDepth the depth the recorder
\* receives has d's sign (negative: no attribution, zero: caller only,
\* positive: caller and stack), and the event carries a stack text exactly
\* when d > 0.
C9_CallerDepthKeepsTriState ==
    MirroredWith("WithCallerDepth") =>
        /\ Len(EffectsOf("recordCaller")) = 1
        /\ Sign(EffectsOf("recordCaller")[1].callerDepth) = Sign(opts[1].n)
        /\ HasStackText(EffectsOf("AddEvent")[1].attrs) <=> (opts[1].n > 0)

\* C10: for every integer k given to WithCallerSkip the recorder is told to
\* skip exactly 3 + k frames when k > 0 and exactly 3 when k <= 0, on the
\* structured and on the sugared decorator.
C10_CallerSkipAddsToFixedFrames ==
    MirroredWith("WithCallerSkip") =>
        /\ Len(EffectsOf("recordCaller")) = 1
        /\ EffectsOf("recordCaller")[1].skip =
              (IF opts[1].n > 0 THEN FixedInternalFrames + opts[1].n
               ELSE FixedInternalFrames)

-----------------------------------------------------------------------------
(* SpecBind: a context is bound under every combination of the three       *)
(* identifier toggles.                                                     *)

ToggleOptLists ==
    { << >> }
    \cup { << WithLogTraceId(a), WithLogSpanId(b), WithLogSampled(c) >> : a, b, c \in BOOLEAN }
    \cup { << WithLogTraceId(a) >> : a \in BOOLEAN }
    \cup { << WithLogSpanId(a) >> : a \in BOOLEAN }
    \cup { << WithLogSampled(a) >> : a \in BOOLEAN }

InitBind ==
    /\ opts \in ToggleOptLists
    /\ objs \in { << NewLogger(ZapBase, opts) >>,
                  << NewSugaredLogger(zap_Sugar(ZapBase), opts) >> }
    /\ origin = << Root >>
    /\ span = NewSpan
    /\ effects = <<>>
    /\ call = NoCall
    /\ alive = "running"
    /\ ncalls = 0
    /\ rc = NoRc
    /\ NoPackage

NextBind == Bind

SpecBind == InitBind /\ [][NextBind]_vars

-----------------------------------------------------------------------------
(* Properties of the identifier fields (SpecBind).                         *)

\* what the option list says about one toggle; each list names it at most once
Toggled(op, default) ==
    IF \E k \in DOMAIN opts : opts[k].op = op
    THEN \E k \in DOMAIN opts : opts[k].op = op /\ opts[k].b
    ELSE default

\* the identifiers of the span context behind each context value
TraceIdOf(ctx) ==
    IF ctx = "span" THEN "4bf92f3577b34da6a3ce929d0e0e4736"
    ELSE "0af7651916cd43dd8448eb211c80319c"
SpanIdOf(ctx) == IF ctx = "span" THEN "00f067aa0ba902b7" ELSE "b7ad6b7169203331"
SampledOf(ctx) == IF ctx = "span" THEN "01" ELSE "00"

ExpectedIdFields(ctx) ==
    (IF Toggled("WithLogTraceId", TRUE)
     THEN << [key |-> "trace_id", val |-> TraceIdOf(ctx)] >> ELSE <<>>)
    \o (IF Toggled("WithLogSpanId", FALSE)
        THEN << [key |-> "span_id", val |-> SpanIdOf(ctx)] >> ELSE <<>>)
    \o (IF Toggled("WithLogSampled", FALSE)
        THEN << [key |-> "sampled", val |-> SampledOf(ctx)] >> ELSE <<>>)

\* C11: binding a context with a valid span context gives a Sink that is
\* the parent's plus trace_id iff LogTraceId, span_id iff LogSpanId and
\* sampled iff LogSampled (each toggle on its own, nothing else added) and a
\* caller skip one higher; without options only trace_id is injected.
C11_IdFieldsFollowToggles ==
    \A i \in DOMAIN objs :
        (origin[i].via \in BindCalls /\ origin[i].ctx \in {"remote", "span"}) =>
            LET base == objs[origin[i].from].Logger
            IN /\ objs[i].kind \in DecoratorKinds
               /\ objs[i].ctx = origin[i].ctx
               /\ objs[i].Logger.fields = base.fields \o ExpectedIdFields(origin[i].ctx)
               /\ objs[i].Logger.callerSkip = base.callerSkip + 1
               /\ objs[i].Logger.name = base.name
               /\ objs[i].Logger.development = base.development
               /\ opts = <<>> =>
                     objs[i].Logger.fields =
                         base.fields \o << [key |-> "trace_id",
                                            val |-> TraceIdOf(origin[i].ctx)] >>

\* trace id off, span id on, sampled off: the Sink gains span_id alone
C11_Witness ==
    /\ opts = << WithLogTraceId(FALSE), WithLogSpanId(TRUE), WithLogSampled(FALSE) >>
    /\ Len(objs) = 2
    /\ origin[2].via = "sugaredLogger.WithContext"
    /\ origin[2].ctx = "span"
    /\ objs[2].Logger.fields = << [key |-> "span_id", val |-> "00f067aa0ba902b7"] >>
    /\ objs[2].Logger.callerSkip = objs[1].Logger.callerSkip + 1

-----------------------------------------------------------------------------
(* SpecMessage: getMessage and getMessageln invoked on their own, for      *)
(* every template and argument list within the bounds.                     *)

ArgValues == { StrArg("hello"), StrArg("x"), IntArg(3), IntArg(7) }

RECURSIVE SeqsUpTo(_, _)
SeqsUpTo(S, n) ==
    IF n = 0 THEN { <<>> }
    ELSE LET shorter == SeqsUpTo(S, n - 1)
         IN shorter \cup { Append(q, v) : q \in shorter, v \in S }

MessageTemplates ==
    { <<>>, << Lit("done") >>, << Verb("d"), Lit(" items") >>,
      << Verb("d"), Lit("-"), Verb("s") >> }

InitMessage ==
    /\ \E args \in SeqsUpTo(ArgValues, MaxArgs) :
          \/ \E template \in MessageTemplates :
                rc = [done |-> FALSE, fn |-> "getMessage", template |-> template,
                      args |-> args, out |-> ""]
          \/ rc = [done |-> FALSE, fn |-> "getMessageln", template |-> <<>>,
                   args |-> args, out |-> ""]
    /\ objs = <<>>
    /\ origin = <<>>
    /\ opts = <<>>
    /\ span = NewSpan
    /\ effects = <<>>
    /\ call = NoCall
    /\ alive = "running"
    /\ ncalls = 0
    /\ NoPackage

GetMessage ==
    /\ ~rc.done
    /\ rc.fn = "getMessage"
    /\ rc' = [rc EXCEPT !.done = TRUE, !.out = getMessage(rc.template, rc.args)]
    /\ UNCHANGED <<objs, origin, opts, span, effects, call, alive, ncalls, pkgvars>>

GetMessageln ==
    /\ ~rc.done
    /\ rc.fn = "getMessageln"
    /\ rc' = [rc EXCEPT !.done = TRUE, !.out = getMessageln(rc.args)]
    /\ UNCHANGED <<objs, origin, opts, span, effects, call, alive, ncalls, pkgvars>>

NextMessage ==
    \/ GetMessage
    \/ GetMessageln

SpecMessage == InitMessage /\ [][NextMessage]_vars

-----------------------------------------------------------------------------
(* Properties of message resolution (SpecMessage).                         *)

\* the operands' texts with one space between neighbours
RECURSIVE JoinedBySpaces(_)
JoinedBySpaces(args) ==
    IF args = <<>> THEN ""
    ELSE IF Len(args) = 1 THEN args[1].s
    ELSE args[1].s \o " " \o JoinedBySpaces(Tail(args))

\* C12: getMessage returns the template unchanged for no arguments, the
\* printf substitution for a non-empty template, the single string argument
\* verbatim for an empty template, and fmt's default join otherwise;
\* getMessageln returns the arguments joined by single spaces without the
\* trailing newline.
C12_MessageResolution ==
    /\ (rc.done /\ rc.fn = "getMessage") =>
          /\ rc.args = <<>> => rc.out = Str(rc.template)
          /\ (rc.args # <<>> /\ rc.template # <<>>) =>
                rc.out = Sprintf(rc.template, rc.args)
          /\ (rc.template = <<>> /\ Len(rc.args) = 1 /\ rc.args[1].t = "string") =>
                rc.out = rc.args[1].s
          /\ (rc.template = <<>> /\ rc.args # <<>>
                /\ ~(Len(rc.args) = 1 /\ rc.args[1].t = "string")) =>
                rc.out = Sprint(rc.args)
          /\ (rc.template = << Verb("d"), Lit("-"), Verb("s") >>
                /\ rc.args = << IntArg(3), StrArg("x") >>) => rc.out = "3-x"
          /\ (rc.template = << Verb("d"), Lit(" items") >> /\ rc.args = <<>>) =>
                rc.out = "%d items"
          /\ (rc.template = <<>> /\ rc.args = << IntArg(3), IntArg(7) >>) =>
                rc.out = "3 7"
          /\ (rc.template = <<>> /\ rc.args = << StrArg("x"), IntArg(7) >>) =>
                rc.out = "x7"
    /\ (rc.done /\ rc.fn = "getMessageln") =>
          /\ rc.out = JoinedBySpaces(rc.args)
          /\ rc.args = <<>> => rc.out = ""
          /\ rc.args = << StrArg("hello"), StrArg("x") >> => rc.out = "hello x"

\* "%d-%s" with 3 and "x" resolved to "3-x"
C12_Witness ==
    /\ rc.done
    /\ rc.fn = "getMessage"
    /\ rc.template = << Verb("d"), Lit("-"), Verb("s") >>
    /\ rc.args = << IntArg(3), StrArg("x") >>
    /\ rc.out = "3-x"

-----------------------------------------------------------------------------
(* Properties of the key/value family (SpecCall).                          *)

KeyValueMethods == {"Debugw", "Infow", "Warnw", "Errorw", "DPanicw", "Panicw", "Fatalw"}

AttrOf(attrs, key) == SelectSeq(attrs, LAMBDA a : a.key = key)

\* C13: for every key/value call with message m and pairs kv the mirrored
\* event's log.message and the error status message are exactly m, format
\* verbs included; no key or value of kv is among the event's attributes;
\* and the Sink receives m with the complete kv.
C13_KeyValueMessageLiteral ==
    (Called("stdSugaredLogger") /\ call.method \in KeyValueMethods) =>
        /\ ForwardedOnce
        /\ EffectsOf("Sink")[1].args = call.args
        /\ Mirrored =>
              LET attrs == EffectsOf("AddEvent")[1].attrs
              IN /\ Len(AttrOf(attrs, "log.message")) = 1
                 /\ AttrOf(attrs, "log.message")[1].val = Str(call.msg)
                 /\ \A a \in DOMAIN attrs, k \in DOMAIN call.args :
                       /\ attrs[a].key # call.args[k].s
                       /\ attrs[a].val # call.args[k].s
        /\ Flagged => span.status = [code |-> "Error", msg |-> Str(call.msg)]
        /\ ~WasRecording => Len(effects) = 1

\* Errorw("%d items", "k", 1) on a recording span at the default thresholds
C13_Witness ==
    /\ Called("stdSugaredLogger")
    /\ call.method = "Errorw"
    /\ call.args = << StrArg("k"), IntArg(1) >>
    /\ Mirrored
    /\ Flagged
    /\ span.status.msg = "%d items"
    /\ Len(span.events) = 1

-----------------------------------------------------------------------------
(* The easylog facade: loggers, the package-level handles and functions.   *)

\* easylog (*logger).Clone(): copies of the two zap loggers; the otel
\* wrappers are not set
easylog_logger_Clone(h, i) ==
    Append(h, [kind |-> "easylog.logger",
               level |-> h[i].level,
               atomicLevel |-> ZeroAtomicLevel,
               logger |-> h[i].logger,
               sugaredLogger |-> h[i].sugaredLogger,
               otelLogger |-> NilWrapper,
               otelSugaredLogger |-> NilWrapper])

\* easylog (*logger).Level() and IsDebug()
easylog_logger_Level(l) == l.level
easylog_logger_IsDebug(l) == l.level = LevelString(DebugLevel)

\* easylog (*logger).SugaredLogger() and CoreLogger()
easylog_logger_SugaredLogger(l) ==
    [kind |-> "easylog.sugaredLogger", sugaredLogger |-> l.sugaredLogger]
easylog_logger_CoreLogger(l) == l.logger

\* easylog (*sugaredLogger) methods: the zap sugared logger's method
easylog_sugaredLogger_Panic(s, m, args) ==
    zap_Log(s.sugaredLogger, m, "Panic", PanicLevel, <<>>, args)
easylog_sugaredLogger_Fatal(s, m, args) ==
    zap_Log(s.sugaredLogger, m, "Fatal", FatalLevel, <<>>, args)
easylog_sugaredLogger_Debugf(s, m, format, args) ==
    zap_Log(s.sugaredLogger, m, "Debugf", DebugLevel, format, args)
easylog_sugaredLogger_Infof(s, m, format, args) ==
    zap_Log(s.sugaredLogger, m, "Infof", InfoLevel, format, args)
easylog_sugaredLogger_Warnf(s, m, format, args) ==
    zap_Log(s.sugaredLogger, m, "Warnf", WarnLevel, format, args)
easylog_sugaredLogger_Errorf(s, m, format, args) ==
    zap_Log(s.sugaredLogger, m, "Errorf", ErrorLevel, format, args)
easylog_sugaredLogger_Panicf(s, m, format, args) ==
    zap_Log(s.sugaredLogger, m, "Panicf", PanicLevel, format, args)
easylog_sugaredLogger_Fatalf(s, m, format, args) ==
    zap_Log(s.sugaredLogger, m, "Fatalf", FatalLevel, format, args)

\* init() and InitGlobalLogger: every handle is taken from the new logger i
InitGlobalLogger(i) ==
    [globalLogger |-> i, globalRawLogger |-> i, globalSugaredLogger |-> i,
     globalLoggerLevel |-> i, globalOtelLogger |-> i, globalOtelSugaredLogger |-> i,
     zapGlobals |-> i]

\* init(): as InitGlobalLogger() but zap's globals are left alone
init == [InitGlobalLogger(1) EXCEPT !.zapGlobals = 0]

\* ReplaceLogger(l), statement by statement
ReplaceLogger(g, at, l) ==
    CASE at = 0 -> [g EXCEPT !.globalLogger = l]
      [] at = 1 -> [g EXCEPT !.globalSugaredLogger = l]
      [] OTHER -> [g EXCEPT !.zapGlobals = g.globalLogger]

\* (zap.AtomicLevel).SetLevel: stores through the level's pointer
AtomicLevel_SetLevel(a, lvl) ==
    IF a.l = "nil" THEN [panics |-> TRUE, a |-> a]
    ELSE [panics |-> FALSE, a |-> [a EXCEPT !.l = lvl]]

-----------------------------------------------------------------------------
(* SpecFacade: a program that uses the easylog package: it builds loggers, *)
(* installs them, derives from them and logs through the package.          *)

OriginInit(via, options) == [from |-> 0, via |-> via, ctx |-> "-", options |-> options]

FacadeOptionLists ==
    { << >>,
      << option_WithLogLevel("DEBUG") >>,
      << option_WithLogFilePath("a.log") >>,
      << option_WithLogFile("b.log", 5, 3, 7, TRUE), option_WithConsole(FALSE),
         option_WithCallerSkip(1) >> }

\* the contexts handed to the facade: one without a span, one with a recording span
FacadeCtxs == {"background", "span"}

InitFacade ==
    /\ objs = << initLogger(<<>>, optionDefaults, 1).l >>
    /\ origin = << OriginInit("init", <<>>) >>
    /\ option = optionDefaults
    /\ globals = init
    /\ replacing = Idle
    /\ installed = 1
    /\ opts = <<>>
    /\ span = NewSpan
    /\ effects = <<>>
    /\ call = NoCall
    /\ alive = "running"
    /\ ncalls = 0
    /\ rc = NoRc

IsFacade(i) == objs[i].kind = "easylog.logger"

\* easylog.InitLogger(options...)
DoInitLogger ==
    \E options \in FacadeOptionLists :
        /\ alive = "running"
        /\ Len(objs) < MaxLoggers
        /\ LET r == initLogger(options, option, Len(objs) + 1)
           IN /\ option' = r.option
              /\ objs' = Append(objs, r.l)
        /\ origin' = Append(origin, OriginInit("InitLogger", options))
        /\ UNCHANGED <<opts, span, effects, call, alive, ncalls, rc, globals, replacing,
                       installed>>

\* easylog.InitGlobalLogger(options...)
DoInitGlobalLogger ==
    \E options \in FacadeOptionLists :
        /\ alive = "running"
        /\ Len(objs) < MaxLoggers
        /\ replacing = Idle
        /\ LET r == initLogger(options, option, Len(objs) + 1)
           IN /\ option' = r.option
              /\ objs' = Append(objs, r.l)
        /\ origin' = Append(origin, OriginInit("InitGlobalLogger", options))
        /\ globals' = InitGlobalLogger(Len(objs) + 1)
        /\ installed' = Len(objs) + 1
        /\ UNCHANGED <<opts, span, effects, call, alive, ncalls, rc, replacing>>

\* ReplaceLogger(objs[i]): globalLogger = l
ReplaceLoggerStructured ==
    \E i \in DOMAIN objs :
        /\ alive = "running"
        /\ IsFacade(i)
        /\ replacing = Idle
        /\ globals' = ReplaceLogger(globals, 0, i)
        /\ replacing' = [at |-> 1, l |-> i]
        /\ UNCHANGED <<objs, origin, opts, span, effects, call, alive, ncalls, rc, option,
                       installed>>

\* ... globalSugaredLogger = l.SugaredLogger()
ReplaceLoggerSugared ==
    /\ alive = "running"
    /\ replacing.at = 1
    /\ globals' = ReplaceLogger(globals, 1, replacing.l)
    /\ replacing' = [replacing EXCEPT !.at = 2]
    /\ UNCHANGED <<objs, origin, opts, span, effects, call, alive, ncalls, rc, option,
                   installed>>

\* ... zap.ReplaceGlobals(globalLogger.CoreLogger()); ReplaceLogger returns
ReplaceLoggerZapGlobals ==
    /\ alive = "running"
    /\ replacing.at = 2
    /\ globals' = ReplaceLogger(globals, 2, replacing.l)
    /\ replacing' = Idle
    /\ installed' = replacing.l
    /\ UNCHANGED <<objs, origin, opts, span, effects, call, alive, ncalls, rc, option>>

\* a nil pointer is dereferenced: the goroutine panics
Panics ==
    /\ alive' = "panicking"
    /\ UNCHANGED <<objs, origin, opts, span, effects, call, ncalls, rc, pkgvars>>

\* easylog.SetLevel(lvl) (SetDebug is SetLevel(DebugLevel)): the handle holds
\* a copy of the logger's atomicLevel
SetLevel ==
    \E lvl \in {DebugLevel, ErrorLevel} :
        /\ alive = "running"
        /\ globals.globalLoggerLevel # 0
        /\ call' = [recv |-> objs[globals.globalLoggerLevel], method |-> "easylog.SetLevel",
                    lvl |-> lvl, msg |-> <<>>, args |-> <<>>, before |-> span]
        /\ LET r == AtomicLevel_SetLevel(objs[globals.globalLoggerLevel].atomicLevel, lvl)
           IN IF r.panics
              THEN /\ alive' = "panicking"
                   /\ UNCHANGED objs
              ELSE /\ objs' = [objs EXCEPT ![globals.globalLoggerLevel].atomicLevel = r.a]
                   /\ UNCHANGED alive
        /\ UNCHANGED <<origin, opts, span, effects, ncalls, rc, pkgvars>>

\* the heap after a facade call that returned a logger
Keep(h, i, via, ctx) ==
    /\ alive = "running"
    /\ Len(objs) < MaxLoggers
    /\ objs' = h
    /\ origin' = Append(origin, Origin(i, via, ctx))
    /\ UNCHANGED <<opts, span, effects, call, alive, ncalls, rc, pkgvars>>

\* (*logger).Clone(), Named(s), With(fields...) on any facade logger
DoClone ==
    \E i \in DOMAIN objs :
        /\ IsFacade(i)
        /\ Keep(easylog_logger_Clone(objs, i), i, "logger.Clone", "-")

DoFacadeNamed ==
    \E i \in DOMAIN objs, s \in Names :
        /\ IsFacade(i)
        /\ Keep(easylog_logger_Named(objs, i, s), i, "logger.Named", "-")

DoFacadeWith ==
    \E i \in DOMAIN objs, fields \in FieldLists :
        /\ IsFacade(i)
        /\ Keep(easylog_logger_With(objs, i, fields), i, "logger.With", "-")

\* (*logger).WithContext(ctx) on any facade logger
DoFacadeWithContext ==
    \E i \in DOMAIN objs, ctx \in FacadeCtxs :
        /\ IsFacade(i)
        /\ alive = "running"
        /\ Len(objs) < MaxLoggers
        /\ LET r == easylog_logger_WithContext(objs[i], ctx)
           IN IF r.kind = "panic" THEN Panics
              ELSE Keep(Append(objs, r), i, "logger.WithContext", ctx)

\* easylog.Named(s) and easylog.With(fields...): globalLogger's methods
PkgNamed ==
    \E s \in Names :
        /\ globals.globalLogger # 0
        /\ Keep(easylog_logger_Named(objs, globals.globalLogger, s),
                globals.globalLogger, "easylog.Named", "-")

PkgWith ==
    \E fields \in FieldLists :
        /\ globals.globalLogger # 0
        /\ Keep(easylog_logger_With(objs, globals.globalLogger, fields),
                globals.globalLogger, "easylog.With", "-")

\* easylog.WithContext(ctx) and easylog.G(ctx): globalOtelLogger.WithContext(ctx)
PkgWithContext ==
    \E ctx \in FacadeCtxs, fn \in {"easylog.WithContext", "easylog.G"} :
        /\ globals.globalOtelLogger # 0
        /\ Keep(Append(objs, logger_WithContext(objs[globals.globalOtelLogger].otelLogger,
                                                ctx)),
                globals.globalOtelLogger, fn, ctx)

\* easylog.GS(ctx): globalOtelSugaredLogger.WithContext(ctx)
PkgGS ==
    \E ctx \in FacadeCtxs :
        /\ globals.globalOtelSugaredLogger # 0
        /\ Keep(Append(objs,
                       sugaredLogger_WithContext(
                           objs[globals.globalOtelSugaredLogger].otelSugaredLogger, ctx)),
                globals.globalOtelSugaredLogger, "easylog.GS", ctx)

\* easylog.N(ctx, name): otelzap.NewLogger(globalRawLogger.logger.Named(name)).WithContext(ctx)
PkgN ==
    \E ctx \in FacadeCtxs, name \in Names :
        /\ globals.globalRawLogger # 0
        /\ Keep(Append(objs,
                       logger_WithContext(
                           NewLogger(zap_Named(objs[globals.globalRawLogger].logger, name),
                                     <<>>), ctx)),
                globals.globalRawLogger, "easylog.N", ctx)

\* the package-level logging functions
PkgPanic ==
    \E args \in ArgLists :
        /\ globals.globalSugaredLogger # 0
        /\ LET s == easylog_logger_SugaredLogger(objs[globals.globalSugaredLogger])
           IN Run(s, "easylog.Panic", PanicLevel, <<>>, args,
                  easylog_sugaredLogger_Panic(s, Machine, args))

PkgFatal ==
    \E args \in ArgLists :
        /\ globals.globalSugaredLogger # 0
        /\ LET s == easylog_logger_SugaredLogger(objs[globals.globalSugaredLogger])
           IN Run(s, "easylog.Fatal", FatalLevel, <<>>, args,
                  easylog_sugaredLogger_Fatal(s, Machine, args))

PkgDebugf ==
    \E f \in FormatCalls :
        /\ globals.globalSugaredLogger # 0
        /\ LET s == easylog_logger_SugaredLogger(objs[globals.globalSugaredLogger])
           IN Run(s, "easylog.Debugf", DebugLevel, f.template, f.args,
                  easylog_sugaredLogger_Debugf(s, Machine, f.template, f.args))

PkgInfof ==
    \E f \in FormatCalls :
        /\ globals.globalSugaredLogger # 0
        /\ LET s == easylog_logger_SugaredLogger(objs[globals.globalSugaredLogger])
           IN Run(s, "easylog.Infof", InfoLevel, f.template, f.args,
                  easylog_sugaredLogger_Infof(s, Machine, f.template, f.args))

PkgWarnf ==
    \E f \in FormatCalls :
        /\ globals.globalSugaredLogger # 0
        /\ LET s == easylog_logger_SugaredLogger(objs[globals.globalSugaredLogger])
           IN Run(s, "easylog.Warnf", WarnLevel, f.template, f.args,
                  easylog_sugaredLogger_Warnf(s, Machine, f.template, f.args))

PkgErrorf ==
    \E f \in FormatCalls :
        /\ globals.globalSugaredLogger # 0
        /\ LET s == easylog_logger_SugaredLogger(objs[globals.globalSugaredLogger])
           IN Run(s, "easylog.Errorf", ErrorLevel, f.template, f.args,
                  easylog_sugaredLogger_Errorf(s, Machine, f.template, f.args))

PkgPanicf ==
    \E f \in FormatCalls :
        /\ globals.globalSugaredLogger # 0
        /\ LET s == easylog_logger_SugaredLogger(objs[globals.globalSugaredLogger])
           IN Run(s, "easylog.Panicf", PanicLevel, f.template, f.args,
                  easylog_sugaredLogger_Panicf(s, Machine, f.template, f.args))

PkgFatalf ==
    \E f \in FormatCalls :
        /\ globals.globalSugaredLogger # 0
        /\ LET s == easylog_logger_SugaredLogger(objs[globals.globalSugaredLogger])
           IN Run(s, "easylog.Fatalf", FatalLevel, f.template, f.args,
                  easylog_sugaredLogger_Fatalf(s, Machine, f.template, f.args))

PkgDebug ==
    \E msg \in Msgs, fields \in FieldLists :
        /\ globals.globalLogger # 0
        /\ Run(objs[globals.globalLogger], "easylog.Debug", DebugLevel, msg, fields,
               easylog_logger_Debug(objs[globals.globalLogger], Machine, msg, fields))

PkgInfo ==
    \E msg \in Msgs, fields \in FieldLists :
        /\ globals.globalLogger # 0
        /\ Run(objs[globals.globalLogger], "easylog.Info", InfoLevel, msg, fields,
               easylog_logger_Info(objs[globals.globalLogger], Machine, msg, fields))

PkgWarn ==
    \E msg \in Msgs, fields \in FieldLists :
        /\ globals.globalLogger # 0
        /\ Run(objs[globals.globalLogger], "easylog.Warn", WarnLevel, msg, fields,
               easylog_logger_Warn(objs[globals.globalLogger], Machine, msg, fields))

PkgError ==
    \E msg \in Msgs, fields \in FieldLists :
        /\ globals.globalLogger # 0
        /\ Run(objs[globals.globalLogger], "easylog.Error", ErrorLevel, msg, fields,
               easylog_logger_Error(objs[globals.globalLogger], Machine, msg, fields))


PkgStructuredCall ==
    \/ PkgDebug
    \/ PkgInfo
    \/ PkgWarn
    \/ PkgError

PkgSugaredCall ==
    \/ PkgPanic
    \/ PkgFatal
    \/ PkgDebugf
    \/ PkgInfof
    \/ PkgWarnf
    \/ PkgErrorf
    \/ PkgPanicf
    \/ PkgFatalf

NextFacade ==
    \/ DoInitLogger
    \/ DoInitGlobalLogger
    \/ ReplaceLoggerStructured
    \/ ReplaceLoggerSugared
    \/ ReplaceLoggerZapGlobals
    \/ SetLevel
    \/ DoClone
    \/ DoFacadeNamed
    \/ DoFacadeWith
    \/ DoFacadeWithContext
    \/ PkgNamed
    \/ PkgWith
    \/ PkgWithContext
    \/ PkgGS
    \/ PkgN
    \/ PkgStructuredCall
    \/ PkgSugaredCall

SpecFacade == InitFacade /\ [][NextFacade]_vars

-----------------------------------------------------------------------------
(* C14: ReplaceLogger is a single atomic replace: in every state a package- *)
(* level call can run in, the structured handle and the sugared handle of   *)
(* the package belong to the same logger (the complete old default logger   *)
(* or the complete new one).                                                *)

C14_ReplaceLoggerIsAtomic ==
    globals.globalSugaredLogger = globals.globalLogger

-----------------------------------------------------------------------------
(* C15: once InitGlobalLogger or ReplaceLogger(l) has returned, every       *)
(* process-wide handle refers to the most recently installed logger: the    *)
(* structured functions (globalLogger), the sugared functions               *)
(* (globalSugaredLogger), WithContext, G and DefaultOtelLogger              *)
(* (globalOtelLogger), GS and DefaultOtelSugaredLogger                      *)
(* (globalOtelSugaredLogger), N (globalRawLogger) and SetLevel              *)
(* (globalLoggerLevel).                                                     *)

C15_HandlesFollowInstalled ==
    replacing = Idle =>
        /\ globals.globalLogger = installed
        /\ globals.globalSugaredLogger = installed
        /\ globals.globalOtelLogger = installed
        /\ globals.globalOtelSugaredLogger = installed
        /\ globals.globalRawLogger = installed
        /\ globals.globalLoggerLevel = installed

-----------------------------------------------------------------------------
(* C16: the configuration of a logger built by InitLogger(opts...) or       *)
(* InitGlobalLogger(opts...) is determined by the options of that call and  *)
(* the package defaults only: its core (file path, size, retention,         *)
(* compression, level, console) is the one the call's options give when     *)
(* applied to the defaults, whatever earlier calls applied.                 *)

InitCalls == {"InitLogger", "InitGlobalLogger"}

C16_ConfigFromOwnOptions ==
    \A i \in DOMAIN objs :
        origin[i].via \in InitCalls =>
            objs[i].logger.core = NewCore(ApplyFrom(origin[i].options, 1, optionDefaults), i)

-----------------------------------------------------------------------------
(* C17: every facade logger reachable from an initialised logger through    *)
(* Named, With and Clone holds a structured and a sugared correlation       *)
(* wrapper, and WithContext(ctx) on it returns a logger for every context   *)
(* instead of dereferencing an absent wrapper.                              *)

C17_FacadeLoggersHoldWrappers ==
    \A i \in DOMAIN objs :
        IsFacade(i) =>
            /\ objs[i].otelLogger.kind # "nil"
            /\ objs[i].otelSugaredLogger.kind # "nil"
            /\ \A ctx \in Ctxs : easylog_logger_WithContext(objs[i], ctx).kind # "panic"

-----------------------------------------------------------------------------
(* C18: SetLevel(lvl) (and SetDebug) after package initialisation or        *)
(* InitGlobalLogger completes without failing and changes the level gate    *)
(* of the process-wide logger: afterwards the core of that logger writes a  *)
(* call at severity S iff S >= lvl.                                         *)

SetLevelChangesGate ==
    (call'.method = "easylog.SetLevel" /\ call' # call) =>
        /\ alive' = "running"
        /\ objs'[globals'.globalLogger].logger.core.level = call'.lvl

C18_SetLevelChangesGate == [][SetLevelChangesGate]_vars

-----------------------------------------------------------------------------
(* C19: a logger built with option.WithLogLevel(x) reports the lower-cased  *)
(* level name from Level() and IsDebug() is true iff that name is "debug";  *)
(* the same holds for every logger derived from it by Named, With or Clone. *)

RECURSIVE BuiltBy(_)
BuiltBy(i) == IF origin[i].from = 0 THEN i ELSE BuiltBy(origin[i].from)

\* the level names the options of an init call ask for
LevelsAsked(options) ==
    { options[k].LogLevel : k \in { j \in DOMAIN options : options[j].o = "logLevelOption" } }

C19_LevelReportsOption ==
    \A i \in DOMAIN objs :
        (IsFacade(i) /\ origin[BuiltBy(i)].via \in InitCalls) =>
            \A x \in LevelsAsked(origin[BuiltBy(i)].options) :
                /\ easylog_logger_Level(objs[i]) = x
                /\ easylog_logger_IsDebug(objs[i]) <=> (x = "debug")

-----------------------------------------------------------------------------
(* C20: With(k1, v1, ..., kn, vn) on the sugared correlating logger yields  *)
(* a logger whose zap logger carries exactly the n pairs given: the one the *)
(* wrapped sugared logger's With gives for the same 2n arguments.           *)

C20_SugaredWithCarriesPairs ==
    \A i \in DOMAIN objs :
        origin[i].via = "sugaredLogger.With" =>
            \E kv \in KeyValueLists :
                objs[i].Logger = zap_SugaredWith(objs[origin[i].from].Logger, kv)

====
